---- MODULE Spec2Model ----
(***************************************************************************)
(* Model of the OpenEMPIRE input-dataset editing layer:                    *)
(* src/empire/input_data_manager.py (the Data Managers) acting on the      *)
(* spreadsheet-backed dataset through the typed accessors of               *)
(* EmpireInputClient, and on the external hourly load series               *)
(* electricload.csv; the Schema Registry (sheets_structure.py) and the     *)
(* scaffold of an empty dataset (create_1_node_system.py); the analysis    *)
(* script (run_analysis.py) and the orchestration it hands its managers    *)
(* to.  Spec runs single managers, SpecVintage does so on workbooks of     *)
(* both vintages, SpecScaffold works on the dataset directory, SpecScript  *)
(* follows the analysis script, SpecOrchestration the apply loop,          *)
(* SpecConcurrent two interleaved apply() calls, SpecPeriods the period    *)
(* and year dictionaries of the app, SpecOrders two managers in both       *)
(* orders, and SpecYear the load manager on a load file of 8760 hours.     *)
(*                                                                         *)
(* Numbers.  Python floats are modelled as integers.  Ratios that the code *)
(* bounds by 0.0 and 1.0 (availability, ramp rate) are counted in tenths,  *)
(* so 1.0 is One.  Demand values are drawn as multiples of HoursPerYear so *)
(* that the division in ElectricLoadManager.apply is exact; floating-point *)
(* rounding is not modelled.                                               *)
(***************************************************************************)
EXTENDS Integers, Sequences, FiniteSets, TLC

VARIABLES
    ds,      \* the dataset: table id -> table (what the xlsx sheets hold)
    load,    \* the external hourly load series, scenario_data_path/electricload.csv
    before,  \* history: ds and load as they were when the last operation began
    last,    \* the last operation: the manager, how it ended, what it touched
    steps,   \* number of operations run so far
    dir,     \* the dataset directory as files: group -> (sheet name -> table)
    run,     \* the analysis run: position in the script, managers, optimizer
    procs    \* processes applying a manager each, between their read and write

vars == <<ds, load, before, last, steps, dir, run, procs>>

----------------------------------------------------------------------------
(* Bounds of the model *)

\* number of manager operations in one behaviour
MaxSteps == 2

\* number of hourly rows of the load series
NHours == 2

----------------------------------------------------------------------------
(* Program constants *)

\* 1.0, in tenths
One == 10

\* hours per year, the divisor and factor of ElectricLoadManager.apply
HoursPerYear == 8760

\* the cell pandas leaves in the rows a .loc assignment to a new column does
\* not select
NaN == -1

\* number of trailing non-node columns of electricload.csv (columns[:-4])
NTimeCols == 4

----------------------------------------------------------------------------
(* Tables: an ordered list of column names and an ordered list of rows;    *)
(* a row maps each column name to its cell.  Row i of the list carries the *)
(* pandas index label i-1 (a RangeIndex, as read from a sheet).            *)

Table(cols, rows) == [cols |-> cols, rows |-> rows]

RowIdx(t) == 1..Len(t.rows)

HasCol(t, c) == \E i \in 1..Len(t.cols) : t.cols[i] = c

InList(x, xs) == \E i \in 1..Len(xs) : xs[i] = x

\* Series.any()
AnyTrue(mask) == \E i \in DOMAIN mask : mask[i]

\* df.loc[mask, col] += v : an assignment that accumulates on the cell
LocIncrement(t, mask, col, v) ==
    LET had == HasCol(t, col)
    IN  [cols |-> IF had THEN t.cols ELSE Append(t.cols, col),
         rows |-> [i \in RowIdx(t) |->
                     IF mask[i]
                     THEN (col :> (IF had THEN t.rows[i][col] + v ELSE NaN)) @@ t.rows[i]
                     ELSE IF had THEN t.rows[i]
                     ELSE t.rows[i] @@ (col :> NaN)]]

\* df.loc[mask, col] = v : the selected rows get v in col; a col the frame
\* lacks is added, with NaN in the rows not selected
LocAssign(t, mask, col, v) ==
    LET had == HasCol(t, col)
    IN  [cols |-> IF had THEN t.cols ELSE Append(t.cols, col),
         rows |-> [i \in RowIdx(t) |->
                     IF mask[i] THEN (col :> v) @@ t.rows[i]
                     ELSE IF had THEN t.rows[i]
                     ELSE t.rows[i] @@ (col :> NaN)]]

----------------------------------------------------------------------------
(* Column names (the wire format) *)

ColAvail      == "GeneratorTypeAvailability"
ColCapital    == "generatorCapitalCost in euro per kW"
ColFuel       == "generatorTypeFuelCost in euro per GJ"
ColFixedOM    == "generatorFixedOMCost in euro per kW"
ColCO2        == "CO2price in euro per tCO2"
ColMaxInst    == "generatorMaxInstallCapacity  in MW"
ColMaxBuilt   == "generatorMaxBuildCapacity in MW"
ColMaxRaw     == "MaxRawNotAdjustWithInitCap in MW"
ColInitCap    == "TransmissionInitialCapacity"
ColLength     == "Length in km"
ColTypeCapex  == "TypeCapitalCost in euro per MWkm"
ColTypeFixOM  == "TypeFixedOMCost in euro per MW"
ColRamp       == "RampRate"
ColDemand     == "ElectricAdjustment in MWh per hour"

----------------------------------------------------------------------------
(* Typed table accessors of EmpireInputClient: each getter/setter pair is  *)
(* bound to one fixed (group, table) of the dataset.                       *)

AccessorTable ==
    [generator_type_availability |-> "Generator/GeneratorTypeAvailability",
     capital_costs               |-> "Generator/CapitalCosts",
     fuel_costs                  |-> "Generator/FuelCosts",
     fixed_om_costs              |-> "Generator/FixedOMCosts",
     co2_price                   |-> "General/CO2Price",
     max_installed_capacity      |-> "Generator/MaxInstalledCapacity",
     max_built_capacity          |-> "Generator/MaxBuiltCapacity",
     max_install_capacity_raw    |-> "Transmission/MaxInstallCapacityRaw",
     initial_capacity            |-> "Transmission/InitialCapacity",
     length                      |-> "Transmission/Length",
     type_capital_cost           |-> "Transmission/TypeCapitalCost",
     type_fixed_om_cost          |-> "Transmission/TypeFixedOMCost",
     ramp_rate                   |-> "Generator/RampRate",
     electric_annual_demand      |-> "Node/ElectricAnnualDemand"]

TableIds == {AccessorTable[a] : a \in DOMAIN AccessorTable}

LoadFile == "electricload.csv"
CountriesFile == "config/countries.json"

\* get_X(): the table held under the accessor's (group, table)
Get(d, accessor) == d.ds[AccessorTable[accessor]]

\* set_X(df): the accessor's (group, table) is replaced by df, whole
Set(tables, accessor, df) == [tables EXCEPT ![AccessorTable[accessor]] = df]

----------------------------------------------------------------------------
(* Outcomes of running a manager on d = [ds, load] *)

\* the exception leaves apply(); nothing was written
Raise(d, exc, reads) ==
    [ds |-> d.ds, load |-> d.load, outcome |-> exc,
     reads |-> reads, writes |-> <<>>]

\* apply() returned after set_X(df)
Written(d, getter, setter, df) ==
    [ds |-> Set(d.ds, setter, df), load |-> d.load, outcome |-> "ok",
     reads |-> <<AccessorTable[getter]>>, writes |-> <<AccessorTable[setter]>>]

----------------------------------------------------------------------------
(* The managers.  A manager is a record of its constructor's arguments,    *)
(* under the names of the attributes __init__ stores them in.  XValid(m)   *)
(* is whether __init__ returns (validate() does not raise); XApply(m, d)   *)
(* is apply() on d = [ds, load].                                           *)

\* a variant of AvailabilityManager.validate that rejects the bounds too
AvailabilityValidStrict(m) == ~(m.availability <= 0 \/ m.availability >= One)

\* AvailabilityManager.validate
AvailabilityValid(m) == ~(m.availability < 0 \/ m.availability > One)

\* AvailabilityManager.apply
AvailabilityApply(m, d) ==
    LET df == Get(d, "generator_type_availability")
        condition == [i \in RowIdx(df) |->
                        df.rows[i]["Generator"] = m.generator_technology]
    IN  IF ~AnyTrue(condition)
        THEN Raise(d, "ValueError", <<AccessorTable["generator_type_availability"]>>)
        ELSE Written(d, "generator_type_availability", "generator_type_availability",
                     LocAssign(df, condition, ColAvail, m.availability))

\* CapitalCostManager.apply
CapitalCostApply(m, d) ==
    LET df == Get(d, "capital_costs")
        condition == [i \in RowIdx(df) |->
                        df.rows[i]["GeneratorTechnology"] = m.generator_technology]
    IN  Written(d, "capital_costs", "capital_costs",
                LocAssign(df, condition, ColCapital, m.capital_cost))

\* FuelCostManager.apply: the log line reads self.capital_cost, an attribute
\* FuelCostManager.__init__ never sets, so apply() raises before set_fuel_costs
FuelCostApply(m, d) ==
    LET df == Get(d, "fuel_costs")
        condition == [i \in RowIdx(df) |->
                        df.rows[i]["GeneratorTechnology"] = m.generator_technology]
        edited == LocAssign(df, condition, ColFuel, m.fuel_cost)
    IN  IF "capital_cost" \notin DOMAIN m
        THEN Raise(d, "AttributeError", <<AccessorTable["fuel_costs"]>>)
        ELSE Written(d, "fuel_costs", "fuel_costs", edited)

\* a variant of CO2PricetManager.__init__ that rejects only a shorter price list
CO2PriceValidShorter(m) == ~(Len(m.periods) > Len(m.co2_prices))

\* CO2PricetManager.__init__: the length check
CO2PriceValid(m) == ~(Len(m.periods) # Len(m.co2_prices))

\* zip(self.periods, self.co2_prices)
Zip(xs, ys) ==
    LET n == IF Len(xs) < Len(ys) THEN Len(xs) ELSE Len(ys)
    IN  [k \in 1..n |-> <<xs[k], ys[k]>>]

\* the for loop of CO2PricetManager.apply, after the first k pairs
RECURSIVE CO2Loop(_, _, _)
CO2Loop(df, pairs, k) ==
    IF k = 0 THEN df
    ELSE LET prev == CO2Loop(df, pairs, k - 1)
         IN  LocAssign(prev,
                       [i \in RowIdx(prev) |-> prev.rows[i]["Period"] = pairs[k][1]],
                       ColCO2, pairs[k][2])

\* an apply() that walks the pairs from the last to the first
CO2PriceApplyBackwards(m, d) ==
    LET df == Get(d, "co2_price")
        zipped == Zip(m.periods, m.co2_prices)
        pairs == [k \in 1..Len(zipped) |-> zipped[Len(zipped) + 1 - k]]
    IN  Written(d, "co2_price", "co2_price", CO2Loop(df, pairs, Len(pairs)))

\* CO2PricetManager.apply
CO2PriceApply(m, d) ==
    LET df == Get(d, "co2_price")
        pairs == Zip(m.periods, m.co2_prices)
    IN  Written(d, "co2_price", "co2_price", CO2Loop(df, pairs, Len(pairs)))

\* an apply() that does not probe for the column: always the fixed-O&M name
FixedOMCostApplyNoProbe(m, d) ==
    LET df == Get(d, "fixed_om_costs")
        condition == [i \in RowIdx(df) |->
                        df.rows[i]["GeneratorTechnology"] = m.generator_technology]
    IN  Written(d, "fixed_om_costs", "fixed_om_costs",
                LocAssign(df, condition, ColFixedOM, m.fixed_om_cost))

\* FixedOMCostManager.apply
FixedOMCostApply(m, d) ==
    LET df == Get(d, "fixed_om_costs")
        y == IF ~HasCol(df, ColFixedOM) THEN ColCapital ELSE ColFixedOM
        condition == [i \in RowIdx(df) |->
                        df.rows[i]["GeneratorTechnology"] = m.generator_technology]
    IN  Written(d, "fixed_om_costs", "fixed_om_costs",
                LocAssign(df, condition, y, m.fixed_om_cost))

\* an apply() that raises as soon as one node of the list has no row of the
\* technology
MaxInstalledCapacityApplyEveryNode(m, d) ==
    LET df == Get(d, "max_installed_capacity")
        condition == [i \in RowIdx(df) |->
                        /\ InList(df.rows[i]["Node"], m.nodes)
                        /\ df.rows[i]["GeneratorTechnology"] = m.generator_technology]
        covered == \A k \in 1..Len(m.nodes) :
                      \E i \in RowIdx(df) :
                         condition[i] /\ df.rows[i]["Node"] = m.nodes[k]
    IN  IF ~AnyTrue(condition) \/ ~covered
        THEN Raise(d, "ValueError", <<AccessorTable["max_installed_capacity"]>>)
        ELSE Written(d, "max_installed_capacity", "max_installed_capacity",
                     LocAssign(df, condition, ColMaxInst, m.max_installed_capacity))

\* MaxInstalledCapacityManager.apply
MaxInstalledCapacityApply(m, d) ==
    LET df == Get(d, "max_installed_capacity")
        condition == [i \in RowIdx(df) |->
                        /\ InList(df.rows[i]["Node"], m.nodes)
                        /\ df.rows[i]["GeneratorTechnology"] = m.generator_technology]
    IN  IF ~AnyTrue(condition)
        THEN Raise(d, "ValueError", <<AccessorTable["max_installed_capacity"]>>)
        ELSE Written(d, "max_installed_capacity", "max_installed_capacity",
                     LocAssign(df, condition, ColMaxInst, m.max_installed_capacity))

\* `if self.nodes:` : None and the empty list are both false
Truthy(nodes) == ~nodes.none /\ Len(nodes.list) > 0

\* MaxBuiltCapacityManager.apply
MaxBuiltCapacityApply(m, d) ==
    LET df == Get(d, "max_built_capacity")
        condition == [i \in RowIdx(df) |->
                        IF Truthy(m.nodes)
                        THEN /\ InList(df.rows[i]["Node"], m.nodes.list)
                             /\ df.rows[i]["GeneratorTechnology"] = m.generator_technology
                        ELSE df.rows[i]["GeneratorTechnology"] = m.generator_technology]
    IN  IF ~AnyTrue(condition)
        THEN Raise(d, "ValueError", <<AccessorTable["max_built_capacity"]>>)
        ELSE Written(d, "max_built_capacity", "max_built_capacity",
                     LocAssign(df, condition, ColMaxBuilt, m.max_built_capacity))

\* a variant of the row selection that takes a line in either direction
MaxTransmissionConditionUndirected(row, m) ==
    \/ row["InterconnectorLinks"] = m.from_node /\ row["ToNode"] = m.to_node
    \/ row["InterconnectorLinks"] = m.to_node /\ row["ToNode"] = m.from_node

\* the row selection of MaxTransmissionCapacityManager.apply
MaxTransmissionCondition(row, m) ==
    row["InterconnectorLinks"] = m.from_node /\ row["ToNode"] = m.to_node

\* MaxTransmissionCapacityManager.apply
MaxTransmissionCapacityApply(m, d) ==
    LET df == Get(d, "max_install_capacity_raw")
        condition == [i \in RowIdx(df) |-> MaxTransmissionCondition(df.rows[i], m)]
    IN  IF ~AnyTrue(condition)
        THEN Raise(d, "ValueError", <<AccessorTable["max_install_capacity_raw"]>>)
        ELSE Written(d, "max_install_capacity_raw", "max_install_capacity_raw",
                     LocAssign(df, condition, ColMaxRaw, m.max_installed_capacity))

\* a variant of RampRateManager.validate that accepts 0.0
RampRateValidZero(m) == ~(m.ramp_rate > One) /\ ~(m.ramp_rate < 0)

\* RampRateManager.validate
RampRateValid(m) == ~(m.ramp_rate > One) /\ ~(m.ramp_rate <= 0)

\* RampRateManager.apply
RampRateApply(m, d) ==
    LET df == Get(d, "ramp_rate")
        condition == [i \in RowIdx(df) |->
                        df.rows[i]["ThermalGenerators"] = m.thermal_generator]
    IN  IF ~AnyTrue(condition)
        THEN Raise(d, "ValueError", <<AccessorTable["ramp_rate"]>>)
        ELSE Written(d, "ramp_rate", "ramp_rate",
                     LocAssign(df, condition, ColRamp, m.ramp_rate))

\* InitialTransmissionCapacityManager.apply
InitialTransmissionCapacityApply(m, d) ==
    LET df == Get(d, "initial_capacity")
        condition == [i \in RowIdx(df) |->
                        /\ df.rows[i]["InterconnectorLinks"] = m.from_node
                        /\ df.rows[i]["ToNode"] = m.to_node]
    IN  IF ~AnyTrue(condition)
        THEN Raise(d, "ValueError", <<AccessorTable["initial_capacity"]>>)
        ELSE Written(d, "initial_capacity", "initial_capacity",
                     LocAssign(df, condition, ColInitCap, m.initial_installed_capacity))

\* TransmissionLengthManager.apply
TransmissionLengthApply(m, d) ==
    LET df == Get(d, "length")
        condition == [i \in RowIdx(df) |->
                        /\ df.rows[i]["FromNode"] = m.from_node
                        /\ df.rows[i]["ToNode"] = m.to_node]
    IN  IF ~AnyTrue(condition)
        THEN Raise(d, "ValueError", <<AccessorTable["length"]>>)
        ELSE Written(d, "length", "length",
                     LocAssign(df, condition, ColLength, m.length))

\* TransmissionCapexManager.apply
TransmissionCapexApply(m, d) ==
    LET df == Get(d, "type_capital_cost")
        condition == [i \in RowIdx(df) |-> df.rows[i]["Type"] = m.transmission_type]
    IN  IF ~AnyTrue(condition)
        THEN Raise(d, "ValueError", <<AccessorTable["type_capital_cost"]>>)
        ELSE Written(d, "type_capital_cost", "type_capital_cost",
                     LocAssign(df, condition, ColTypeCapex, m.capex))

\* TransmissionFixedOMManager.apply: the frame is read with
\* get_type_capital_cost and written with set_type_fixed_om_cost
TransmissionFixedOMApply(m, d) ==
    LET df == Get(d, "type_capital_cost")
        condition == [i \in RowIdx(df) |-> df.rows[i]["Type"] = m.transmission_type]
    IN  IF ~AnyTrue(condition)
        THEN Raise(d, "ValueError", <<AccessorTable["type_capital_cost"]>>)
        ELSE Written(d, "type_capital_cost", "type_fixed_om_cost",
                     LocAssign(df, condition, ColTypeFixOM, m.fixed_om))

----------------------------------------------------------------------------
(* ElectricLoadManager: the annual-demand table and the hourly load series *)

\* config/countries.json, the lookup from the codes of electricload.csv to
\* node names
dict_countries == [GB |-> "Great Brit."]

\* DataFrame.rename(columns=dict_countries)
Rename(cols) ==
    [j \in 1..Len(cols) |->
        IF cols[j] \in DOMAIN dict_countries THEN dict_countries[cols[j]] ELSE cols[j]]

\* df_electricload.columns[:-4]
NodeColumns(cols) ==
    IF Len(cols) > NTimeCols THEN SubSeq(cols, 1, Len(cols) - NTimeCols) ELSE <<>>

\* the node check of ElectricLoadManager.apply passes
NodeInLoad(node, file) == InList(node, NodeColumns(Rename(file.cols)))

\* a variant of the hourly transform that shifts before it scales
LoadTransformShiftFirst(v, scale, shift) == scale * (v + shift)

\* self.scale * value + self.shift, one hourly value
LoadTransform(v, scale, shift) == scale * v + shift

\* df_electricload.loc[:, self.node] = self.scale * df_electricload[self.node] + self.shift
\* on the renamed frame
ScaledLoad(file, m) ==
    LET cols == Rename(file.cols)
    IN  [cols |-> cols,
         rows |-> [h \in 1..Len(file.rows) |->
                     LET row == file.rows[h]
                     IN  [j \in 1..Len(cols) |->
                            IF cols[j] = m.node
                            THEN LoadTransform(row[j], m.scale, m.shift)
                            ELSE row[j]]]]

\* Series[0] on df.loc[cond, col]: the cell of the selected row whose index
\* label is 0, i.e. of the first row of the table; a KeyError when the first
\* row is not selected
Label0Selected(cond) == Len(cond) >= 1 /\ cond[1]

\* an annual demand that takes the shift once, not once per hour
NewAnnualDemandShiftOnce(x, m) == m.scale * x + m.shift

\* the new first-period annual demand
NewAnnualDemand(x, m) ==
    LET scale == (m.scale * x) \div HoursPerYear
    IN  (scale + m.shift) * HoursPerYear

\* ElectricLoadManager.apply.  fault names the write the environment makes
\* fail: "none", "set" (set_electric_annual_demand raises) or "csv" (to_csv
\* raises).
ElectricLoadApply(m, d, fault) ==
    LET demandId == AccessorTable["electric_annual_demand"]
        df == Get(d, "electric_annual_demand")
        period == df.rows[1]["Period"]
        cond == [i \in RowIdx(df) |->
                    df.rows[i]["Nodes"] = m.node /\ df.rows[i]["Period"] = period]
        edited == LocAssign(df, cond, ColDemand,
                            NewAnnualDemand(df.rows[1][ColDemand], m))
    IN  IF ~NodeInLoad(m.node, d.load)
        THEN Raise(d, "ValueError", <<CountriesFile, LoadFile>>)
        ELSE IF Len(df.rows) = 0
        THEN Raise(d, "IndexError", <<CountriesFile, LoadFile, demandId>>)
        ELSE IF ~Label0Selected(cond)
        THEN Raise(d, "KeyError", <<CountriesFile, LoadFile, demandId>>)
        ELSE IF fault = "set"
        THEN Raise(d, "OSError", <<CountriesFile, LoadFile, demandId>>)
        ELSE IF fault = "csv"
        THEN [ds |-> Set(d.ds, "electric_annual_demand", edited), load |-> d.load,
              outcome |-> "OSError",
              reads |-> <<CountriesFile, LoadFile, demandId>>,
              writes |-> <<demandId>>]
        ELSE [ds |-> Set(d.ds, "electric_annual_demand", edited),
              load |-> ScaledLoad(d.load, m),
              outcome |-> "ok",
              reads |-> <<CountriesFile, LoadFile, demandId>>,
              writes |-> <<demandId, LoadFile>>]

----------------------------------------------------------------------------
(* Datasets the program starts from *)

Row2(c1, v1, c2, v2) == (c1 :> v1) @@ (c2 :> v2)
Row3(c1, v1, c2, v2, c3, v3) == (c1 :> v1) @@ (c2 :> v2) @@ (c3 :> v3)
Row4(c1, v1, c2, v2, c3, v3, c4, v4) ==
    (c1 :> v1) @@ (c2 :> v2) @@ (c3 :> v3) @@ (c4 :> v4)

GenTechRows(col, v1, v2) ==
    << Row3("GeneratorTechnology", "Nuclear", "Period", 1, col, v1),
       Row3("GeneratorTechnology", "Wind_onshr", "Period", 1, col, v2),
       Row3("GeneratorTechnology", "Nuclear", "Period", 2, col, v1) >>

LineRows(c1, col) ==
    << Row4(c1, "NO1", "ToNode", "NO2", "Period", 1, col, 100),
       Row4(c1, "NO2", "ToNode", "NO1", "Period", 1, col, 100),
       Row4(c1, "NO2", "ToNode", "Germany", "Period", 1, col, 300) >>

TypeRows(col, types) ==
    [i \in 1..Len(types) |-> Row3("Type", types[i], "Period", 1, col, 5 * i)]

DemandRows(nodes) ==
    [i \in 1..Len(nodes) |->
        Row3("Nodes", nodes[i], "Period", 1, ColDemand, i * HoursPerYear)]
    \o << Row3("Nodes", nodes[1], "Period", 2, ColDemand, 3 * HoursPerYear) >>

\* the orders the rows of the annual-demand table may come in
DemandLayouts == { <<"NO1", "Great Brit.">>, <<"Great Brit.", "NO1">> }

\* the transmission types that have a fixed-O&M row (the capital-cost table
\* has both types)
FixedOMTypeLayouts == { <<"HVAC_OverheadLine", "HVDC_Cable">>, <<"HVDC_Cable">> }

\* the headers electricload.csv may come with: node columns, then the four
\* time columns
LoadHeaders ==
    { <<"NO1", "GB", "time", "year", "month", "hour">>,
      <<"NO1", "Great Brit.", "time", "year", "month", "hour">> }

\* the hourly rows: hour h holds 10*h + j in column j
LoadFileOf(header) ==
    [cols |-> header,
     rows |-> [h \in 1..NHours |-> [j \in 1..Len(header) |-> 10 * h + j]]]

Dataset(demandNodes, fixedOMTypes) ==
    ("Generator/GeneratorTypeAvailability" :>
        Table(<<"Generator", ColAvail>>,
              << Row2("Generator", "Nuclear", ColAvail, 9),
                 Row2("Generator", "Wind_onshr", ColAvail, 3) >>)) @@
    ("Generator/CapitalCosts" :>
        Table(<<"GeneratorTechnology", "Period", ColCapital>>,
              GenTechRows(ColCapital, 6000, 943))) @@
    ("Generator/FuelCosts" :>
        Table(<<"GeneratorTechnology", "Period", ColFuel>>,
              GenTechRows(ColFuel, 2, 0))) @@
    ("Generator/FixedOMCosts" :>
        Table(<<"GeneratorTechnology", "Period", ColFixedOM>>,
              GenTechRows(ColFixedOM, 15, 12))) @@
    ("General/CO2Price" :>
        Table(<<"Period", ColCO2>>,
              << Row2("Period", 1, ColCO2, 63), Row2("Period", 2, ColCO2, 70) >>)) @@
    ("Generator/MaxInstalledCapacity" :>
        Table(<<"Node", "GeneratorTechnology", ColMaxInst>>,
              << Row3("Node", "NO1", "GeneratorTechnology", "Wind_onshr", ColMaxInst, 100),
                 Row3("Node", "NO2", "GeneratorTechnology", "Wind_onshr", ColMaxInst, 200),
                 Row3("Node", "NO1", "GeneratorTechnology", "Nuclear", ColMaxInst, 0) >>)) @@
    ("Generator/MaxBuiltCapacity" :>
        Table(<<"Node", "GeneratorTechnology", "Period", ColMaxBuilt>>,
              << Row4("Node", "NO1", "GeneratorTechnology", "Wind_onshr", "Period", 1, ColMaxBuilt, 10),
                 Row4("Node", "NO2", "GeneratorTechnology", "Wind_onshr", "Period", 1, ColMaxBuilt, 20),
                 Row4("Node", "NO1", "GeneratorTechnology", "Nuclear", "Period", 1, ColMaxBuilt, 5) >>)) @@
    ("Transmission/MaxInstallCapacityRaw" :>
        Table(<<"InterconnectorLinks", "ToNode", "Period", ColMaxRaw>>,
              LineRows("InterconnectorLinks", ColMaxRaw))) @@
    ("Transmission/InitialCapacity" :>
        Table(<<"InterconnectorLinks", "ToNode", "Period", ColInitCap>>,
              LineRows("InterconnectorLinks", ColInitCap))) @@
    ("Transmission/Length" :>
        Table(<<"FromNode", "ToNode", ColLength>>,
              << Row3("FromNode", "NO1", "ToNode", "NO2", ColLength, 100),
                 Row3("FromNode", "NO2", "ToNode", "Germany", ColLength, 500),
                 Row3("FromNode", "NO2", "ToNode", "Great Brit.", ColLength, 700) >>)) @@
    ("Transmission/TypeCapitalCost" :>
        Table(<<"Type", "Period", ColTypeCapex>>,
              TypeRows(ColTypeCapex, <<"HVAC_OverheadLine", "HVDC_Cable">>))) @@
    ("Transmission/TypeFixedOMCost" :>
        Table(<<"Type", "Period", ColTypeFixOM>>,
              TypeRows(ColTypeFixOM, fixedOMTypes))) @@
    ("Generator/RampRate" :>
        Table(<<"ThermalGenerators", ColRamp>>,
              << Row2("ThermalGenerators", "Nuclear", ColRamp, 5),
                 Row2("ThermalGenerators", "Gas", ColRamp, 9) >>)) @@
    ("Node/ElectricAnnualDemand" :>
        Table(<<"Nodes", "Period", ColDemand>>, DemandRows(demandNodes)))

NoOperation ==
    [mgr |-> [kind |-> "none"], constructed |-> FALSE, outcome |-> "none",
     reads |-> <<>>, writes |-> <<>>]

\* no directory scaffolded, no analysis run under way, no process started
NoDirectory == [exists |-> FALSE, files |-> << >>]
NoRun == [pc |-> "none"]
NoProcs == << >>

\* the value column of the generator fixed-O&M sheet: its own name, or the
\* capital-cost name that older workbooks carry (input_data_manager.py 180-183)
GeneratorFixedOMColumns == {ColFixedOM, ColCapital}

\* the generator fixed-O&M table with value column y
GeneratorFixedOMTable(y) ==
    Table(<<"GeneratorTechnology", "Period", y>>, GenTechRows(y, 15, 12))

Init ==
    /\ \E dn \in DemandLayouts, ft \in FixedOMTypeLayouts : ds = Dataset(dn, ft)
    /\ \E hd \in LoadHeaders : load = LoadFileOf(hd)
    /\ before = [ds |-> ds, load |-> load]
    /\ last = NoOperation
    /\ steps = 0
    /\ dir = NoDirectory
    /\ run = NoRun
    /\ procs = NoProcs

----------------------------------------------------------------------------
(* One operation: Manager(...).apply(), as at input_data_manager.py        *)
(* 647-650.  The constructor runs first; when it raises, apply() is never  *)
(* reached.                                                                *)

Current == [ds |-> ds, load |-> load]

Failed(m) ==
    /\ ds' = ds
    /\ load' = load
    /\ last' = [mgr |-> m, constructed |-> FALSE, outcome |-> "ValueError",
                reads |-> <<>>, writes |-> <<>>]

Applied(m, r) ==
    /\ ds' = r.ds
    /\ load' = r.load
    /\ last' = [mgr |-> m, constructed |-> TRUE, outcome |-> r.outcome,
                reads |-> r.reads, writes |-> r.writes]

Begin ==
    /\ steps < MaxSteps
    /\ steps' = steps + 1
    /\ before' = Current
    /\ UNCHANGED <<dir, run, procs>>

\* arguments the callers pass
TechArgs == {"Nuclear", "Bio"}
RatioArgs == {-1, 0, 5, One, One + 1}
NodeArgs == {"NO1", "NO2", "Germany"}
TypeArgs == {"HVAC_OverheadLine", "HVDC_Cable", "HVDC_Overhead"}
NodeListArgs == { <<"NO1">>, <<"NO1", "NO5">>, <<"NO5">> }
OptNodeListArgs ==
    { [none |-> TRUE, list |-> <<>>], [none |-> FALSE, list |-> <<>>],
      [none |-> FALSE, list |-> <<"NO1">>] }
PeriodListArgs == { <<>>, <<1>>, <<1, 2>>, <<3>>, <<1, 1>> }
PriceListArgs == { <<>>, <<50>>, <<50, 60>> }
LoadNodeArgs == {"NO1", "Great Brit.", "GB", "hour", "SE1"}
FaultArgs == {"none", "set", "csv"}

AvailabilityManager ==
    \E t \in TechArgs, a \in RatioArgs :
        LET m == [kind |-> "AvailabilityManager", generator_technology |-> t,
                  availability |-> a]
        IN  /\ Begin
            /\ IF AvailabilityValid(m)
               THEN Applied(m, AvailabilityApply(m, Current)) ELSE Failed(m)

CapitalCostManager ==
    \E t \in TechArgs :
        LET m == [kind |-> "CapitalCostManager", generator_technology |-> t,
                  capital_cost |-> 7000]
        IN  Begin /\ Applied(m, CapitalCostApply(m, Current))

FuelCostManager ==
    \E t \in TechArgs :
        LET m == [kind |-> "FuelCostManager", generator_technology |-> t,
                  fuel_cost |-> 4]
        IN  Begin /\ Applied(m, FuelCostApply(m, Current))

CO2PricetManager ==
    \E ps \in PeriodListArgs, cs \in PriceListArgs :
        LET m == [kind |-> "CO2PricetManager", periods |-> ps, co2_prices |-> cs]
        IN  /\ Begin
            /\ IF CO2PriceValid(m)
               THEN Applied(m, CO2PriceApply(m, Current)) ELSE Failed(m)

FixedOMCostManager ==
    \E t \in TechArgs :
        LET m == [kind |-> "FixedOMCostManager", generator_technology |-> t,
                  fixed_om_cost |-> 20]
        IN  Begin /\ Applied(m, FixedOMCostApply(m, Current))

MaxInstalledCapacityManager ==
    \E t \in {"Wind_onshr", "Bio"}, ns \in NodeListArgs :
        LET m == [kind |-> "MaxInstalledCapacityManager", generator_technology |-> t,
                  nodes |-> ns, max_installed_capacity |-> 50]
        IN  Begin /\ Applied(m, MaxInstalledCapacityApply(m, Current))

MaxBuiltCapacityManager ==
    \E t \in {"Wind_onshr", "Bio"}, ns \in OptNodeListArgs :
        LET m == [kind |-> "MaxBuiltCapacityManager", generator_technology |-> t,
                  nodes |-> ns, max_built_capacity |-> 7]
        IN  Begin /\ Applied(m, MaxBuiltCapacityApply(m, Current))

MaxTransmissionCapacityManager ==
    \E f \in NodeArgs, t \in NodeArgs :
        LET m == [kind |-> "MaxTransmissionCapacityManager", from_node |-> f,
                  to_node |-> t, max_installed_capacity |-> 0]
        IN  Begin /\ Applied(m, MaxTransmissionCapacityApply(m, Current))

ElectricLoadManager ==
    \E n \in LoadNodeArgs, sc \in {1, 2}, sh \in {0, 1}, fault \in FaultArgs :
        LET m == [kind |-> "ElectricLoadManager", node |-> n, scale |-> sc,
                  shift |-> sh]
        IN  Begin /\ Applied(m, ElectricLoadApply(m, Current, fault))

RampRateManager ==
    \E g \in {"Nuclear", "Bio"}, r \in RatioArgs :
        LET m == [kind |-> "RampRateManager", thermal_generator |-> g,
                  ramp_rate |-> r]
        IN  /\ Begin
            /\ IF RampRateValid(m)
               THEN Applied(m, RampRateApply(m, Current)) ELSE Failed(m)

InitialTransmissionCapacityManager ==
    \E f \in {"NO1", "NO2"}, t \in {"NO2", "Germany"} :
        LET m == [kind |-> "InitialTransmissionCapacityManager", from_node |-> f,
                  to_node |-> t, initial_installed_capacity |-> 1400]
        IN  Begin /\ Applied(m, InitialTransmissionCapacityApply(m, Current))

\* str.replace(" ", ""), on the node names of the model: "Great Brit." is the
\* one that holds a space
StripSpaces(name) ==
    IF name = "Great Brit." THEN "GreatBrit." ELSE name

TransmissionLengthManager ==
    \E f \in {"NO1", "NO2"}, t \in {"NO2", "Germany", "Great Brit."} :
        LET m == [kind |-> "TransmissionLengthManager", from_node |-> StripSpaces(f),
                  to_node |-> StripSpaces(t), length |-> 580]
        IN  Begin /\ Applied(m, TransmissionLengthApply(m, Current))

TransmissionCapexManager ==
    \E ty \in TypeArgs :
        LET m == [kind |-> "TransmissionCapexManager", transmission_type |-> ty,
                  capex |-> 800]
        IN  Begin /\ Applied(m, TransmissionCapexApply(m, Current))

TransmissionFixedOMManager ==
    \E ty \in TypeArgs :
        LET m == [kind |-> "TransmissionFixedOMManager", transmission_type |-> ty,
                  fixed_om |-> 8]
        IN  Begin /\ Applied(m, TransmissionFixedOMApply(m, Current))

Next ==
    \/ AvailabilityManager
    \/ CapitalCostManager
    \/ FuelCostManager
    \/ CO2PricetManager
    \/ FixedOMCostManager
    \/ MaxInstalledCapacityManager
    \/ MaxBuiltCapacityManager
    \/ MaxTransmissionCapacityManager
    \/ ElectricLoadManager
    \/ RampRateManager
    \/ InitialTransmissionCapacityManager
    \/ TransmissionLengthManager
    \/ TransmissionCapexManager
    \/ TransmissionFixedOMManager

Spec == Init /\ [][Next]_vars

\* the same operations on workbooks of both vintages of the generator
\* fixed-O&M sheet
InitVintage ==
    /\ \E y \in GeneratorFixedOMColumns :
          ds = [Dataset(<<"NO1", "Great Brit.">>, <<"HVAC_OverheadLine", "HVDC_Cable">>)
                  EXCEPT !["Generator/FixedOMCosts"] = GeneratorFixedOMTable(y)]
    /\ load = LoadFileOf(<<"NO1", "GB", "time", "year", "month", "hour">>)
    /\ before = [ds |-> ds, load |-> load]
    /\ last = NoOperation
    /\ steps = 0
    /\ dir = NoDirectory
    /\ run = NoRun
    /\ procs = NoProcs

SpecVintage == InitVintage /\ [][Next]_vars

----------------------------------------------------------------------------
(* What the specification says each manager selects: its target table     *)
(* and its selection predicate over the dimension columns (spec.md 4.4).  *)

TargetId(m) ==
    CASE m.kind = "AvailabilityManager" -> "Generator/GeneratorTypeAvailability"
      [] m.kind = "CapitalCostManager" -> "Generator/CapitalCosts"
      [] m.kind = "FuelCostManager" -> "Generator/FuelCosts"
      [] m.kind = "CO2PricetManager" -> "General/CO2Price"
      [] m.kind = "FixedOMCostManager" -> "Generator/FixedOMCosts"
      [] m.kind = "MaxInstalledCapacityManager" -> "Generator/MaxInstalledCapacity"
      [] m.kind = "MaxBuiltCapacityManager" -> "Generator/MaxBuiltCapacity"
      [] m.kind = "MaxTransmissionCapacityManager" -> "Transmission/MaxInstallCapacityRaw"
      [] m.kind = "ElectricLoadManager" -> "Node/ElectricAnnualDemand"
      [] m.kind = "RampRateManager" -> "Generator/RampRate"
      [] m.kind = "InitialTransmissionCapacityManager" -> "Transmission/InitialCapacity"
      [] m.kind = "TransmissionLengthManager" -> "Transmission/Length"
      [] m.kind = "TransmissionCapexManager" -> "Transmission/TypeCapitalCost"
      [] m.kind = "TransmissionFixedOMManager" -> "Transmission/TypeFixedOMCost"

\* row of table t is selected by manager m
Selects(m, t, row) ==
    CASE m.kind = "AvailabilityManager" -> row["Generator"] = m.generator_technology
      [] m.kind \in {"CapitalCostManager", "FuelCostManager", "FixedOMCostManager"} ->
            row["GeneratorTechnology"] = m.generator_technology
      [] m.kind = "CO2PricetManager" -> InList(row["Period"], m.periods)
      [] m.kind = "MaxInstalledCapacityManager" ->
            InList(row["Node"], m.nodes) /\ row["GeneratorTechnology"] = m.generator_technology
      [] m.kind = "MaxBuiltCapacityManager" ->
            /\ m.nodes.none \/ InList(row["Node"], m.nodes.list)
            /\ row["GeneratorTechnology"] = m.generator_technology
      [] m.kind \in {"MaxTransmissionCapacityManager", "InitialTransmissionCapacityManager"} ->
            row["InterconnectorLinks"] = m.from_node /\ row["ToNode"] = m.to_node
      [] m.kind = "ElectricLoadManager" ->
            row["Nodes"] = m.node /\ row["Period"] = t.rows[1]["Period"]
      [] m.kind = "RampRateManager" -> row["ThermalGenerators"] = m.thermal_generator
      [] m.kind = "TransmissionLengthManager" ->
            /\ StripSpaces(row["FromNode"]) = m.from_node
            /\ StripSpaces(row["ToNode"]) = m.to_node
      [] m.kind \in {"TransmissionCapexManager", "TransmissionFixedOMManager"} ->
            row["Type"] = m.transmission_type

\* the selection predicate of m matches zero rows of its target table in d
NoMatch(m, d) ==
    LET t == d.ds[TargetId(m)]
    IN  \A i \in RowIdx(t) : ~Selects(m, t, t.rows[i])

ApplyCalled == last.constructed

Unchanged == ds = before.ds /\ load = before.load

OtherTablesUnchanged(id) == \A o \in TableIds \ {id} : ds[o] = before.ds[o]

----------------------------------------------------------------------------
(* Claims *)

\* C1: for every manager kind and dataset state, when the selection
\* predicate matches zero rows of the target table, apply() ends in an
\* error; it never returns normally.
C1_NoMatchIsError ==
    (ApplyCalled /\ NoMatch(last.mgr, before)) => last.outcome # "ok"

\* C2: for every manager, apply() with a selection matching zero rows
\* leaves every table as it was and raises before any setter is invoked.
C2_NoMatchLeavesDatasetUntouched ==
    (ApplyCalled /\ NoMatch(last.mgr, before)) =>
        (Unchanged /\ last.writes = <<>>)

\* C3: a successful TransmissionFixedOM.apply() reads and writes the
\* transmission fixed-O&M table, sets 'TypeFixedOMCost in euro per MW' on the
\* rows of the target type, and leaves the other rows of that table and the
\* transmission capital-cost table unchanged.
C3_TransmissionFixedOMEditsOwnTable ==
    (last.mgr.kind = "TransmissionFixedOMManager" /\ last.outcome = "ok") =>
        LET id == "Transmission/TypeFixedOMCost"
            old == before.ds[id]
            new == ds[id]
        IN  /\ last.reads = <<id>>
            /\ last.writes = <<id>>
            /\ new.cols = old.cols
            /\ Len(new.rows) = Len(old.rows)
            /\ \A i \in RowIdx(old) :
                 new.rows[i] =
                    IF old.rows[i]["Type"] = last.mgr.transmission_type
                    THEN (ColTypeFixOM :> last.mgr.fixed_om) @@ old.rows[i]
                    ELSE old.rows[i]
            /\ OtherTablesUnchanged(id)

\* C4: after MaxTransmissionCapacity.apply() with target (from_node, to_node,
\* v), every row whose InterconnectorLinks is from_node and whose ToNode is
\* to_node has 'MaxRawNotAdjustWithInitCap in MW' equal to v; every other
\* row, the reverse direction included, and every other column is unchanged.
C4_MaxTransmissionSetsDirectedPair ==
    last.mgr.kind = "MaxTransmissionCapacityManager" =>
        LET id == "Transmission/MaxInstallCapacityRaw"
            old == before.ds[id]
            new == ds[id]
        IN  /\ new.cols = old.cols
            /\ Len(new.rows) = Len(old.rows)
            /\ \A i \in RowIdx(old) :
                 IF /\ old.rows[i]["InterconnectorLinks"] = last.mgr.from_node
                    /\ old.rows[i]["ToNode"] = last.mgr.to_node
                 THEN new.rows[i] =
                        [old.rows[i] EXCEPT ![ColMaxRaw] = last.mgr.max_installed_capacity]
                 ELSE new.rows[i] = old.rows[i]
            /\ OtherTablesUnchanged(id)
            /\ load = before.load

\* C4 witness: the line NO1 -> NO2 was set to 0 while the reverse line
\* NO2 -> NO1 kept its 100 MW.
C4_Witness ==
    /\ last.mgr.kind = "MaxTransmissionCapacityManager"
    /\ last.outcome = "ok"
    /\ last.mgr.from_node = "NO1" /\ last.mgr.to_node = "NO2"
    /\ LET new == ds["Transmission/MaxInstallCapacityRaw"]
       IN  /\ \E i \in RowIdx(new) :
                /\ new.rows[i]["InterconnectorLinks"] = "NO1"
                /\ new.rows[i]["ToNode"] = "NO2"
                /\ new.rows[i][ColMaxRaw] = 0
           /\ \E i \in RowIdx(new) :
                /\ new.rows[i]["InterconnectorLinks"] = "NO2"
                /\ new.rows[i]["ToNode"] = "NO1"
                /\ new.rows[i][ColMaxRaw] = 100

\* the constructor raised: apply() was never called, no table or file was
\* read or written
FailedAtConstruction ==
    /\ ~last.constructed
    /\ last.outcome = "ValueError"
    /\ last.reads = <<>>
    /\ last.writes = <<>>
    /\ Unchanged

\* C5: constructing an Availability manager with availability < 0.0 or
\* > 1.0 fails at construction, before any table is read or written;
\* with 0.0, 1.0 or a value between, construction succeeds.
C5_AvailabilityRange ==
    last.mgr.kind = "AvailabilityManager" =>
        IF last.mgr.availability < 0 \/ last.mgr.availability > One
        THEN FailedAtConstruction
        ELSE last.constructed

\* C5 witness: availability 1.1 was rejected at construction.
C5_Witness ==
    /\ last.mgr.kind = "AvailabilityManager"
    /\ last.mgr.availability = One + 1
    /\ FailedAtConstruction

\* C6: constructing a RampRate manager fails for ramp_rate <= 0.0 and for
\* ramp_rate > 1.0, with no table read or written, and succeeds for
\* 0.0 < ramp_rate <= 1.0.
C6_RampRateRange ==
    last.mgr.kind = "RampRateManager" =>
        IF last.mgr.ramp_rate <= 0 \/ last.mgr.ramp_rate > One
        THEN FailedAtConstruction
        ELSE last.constructed

\* C6 witness: ramp rate 0.0 was rejected at construction.
C6_Witness ==
    /\ last.mgr.kind = "RampRateManager"
    /\ last.mgr.ramp_rate = 0
    /\ FailedAtConstruction

\* C7: constructing a CO2Price manager with len(periods) # len(co2_prices)
\* fails at construction, before any table is read; with equal lengths it
\* succeeds.
C7_CO2PriceLengths ==
    last.mgr.kind = "CO2PricetManager" =>
        IF Len(last.mgr.periods) # Len(last.mgr.co2_prices)
        THEN FailedAtConstruction
        ELSE last.constructed

\* C7 witness: periods [1, 2] with prices [50] was rejected at construction.
C7_Witness ==
    /\ last.mgr.kind = "CO2PricetManager"
    /\ last.mgr.periods = <<1, 2>>
    /\ last.mgr.co2_prices = <<50>>
    /\ FailedAtConstruction

DemandId == "Node/ElectricAnnualDemand"

\* node n has a row in the first period of annual-demand table t
HasFirstPeriodRow(t, n) ==
    \E i \in RowIdx(t) : t.rows[i]["Nodes"] = n /\ t.rows[i]["Period"] = t.rows[1]["Period"]

\* C8: ElectricLoad.apply() for a node N with a row in the first period of
\* the annual-demand table, wherever that row stands in the table: the row
\* (N, first period), holding X, becomes scale*X + shift*8760, and every
\* other row of the table is unchanged.  (Stated for the calls in which N is
\* in the load series and no write fails.)
C8_FirstPeriodDemandScaledAtAnyPosition ==
    ( /\ last.mgr.kind = "ElectricLoadManager"
      /\ last.outcome \notin {"ValueError", "OSError"}
      /\ HasFirstPeriodRow(before.ds[DemandId], last.mgr.node) ) =>
        LET old == before.ds[DemandId]
            new == ds[DemandId]
        IN  /\ new.cols = old.cols
            /\ Len(new.rows) = Len(old.rows)
            /\ \A i \in RowIdx(old) :
                 IF /\ old.rows[i]["Nodes"] = last.mgr.node
                    /\ old.rows[i]["Period"] = old.rows[1]["Period"]
                 THEN new.rows[i] =
                        [old.rows[i] EXCEPT ![ColDemand] =
                            last.mgr.scale * old.rows[i][ColDemand]
                              + last.mgr.shift * HoursPerYear]
                 ELSE new.rows[i] = old.rows[i]

C10_DemandAndSeriesChangeTogether ==
    last.mgr.kind = "ElectricLoadManager" =>
        ((ds[DemandId] # before.ds[DemandId]) <=> (load.rows # before.load.rows))

----------------------------------------------------------------------------
(* The Schema Registry (sheets_structure.py) and the scaffold of an empty  *)
(* dataset directory: the loop at create_1_node_system.py 15-21 and the    *)
(* guarded call at dataset_to_yaml.py 19-21.  The directory is dir:        *)
(* whether it exists, and for each xlsx file in it (named by its group)    *)
(* the sheets the file holds.                                              *)

\* number of operations on the directory in one behaviour
MaxDirSteps == 3

sheets ==
    [Sets |-> << "Nodes", "OffshoreNodes", "Horizon", "Storage", "Technology",
                 "Generators", "LineType", "HourOfSeason", "StorageOfNodes",
                 "DirectionalLines", "LineTypeOfDirectionalLines",
                 "GeneratorsOfNode", "GeneratorsOfTechnology", "Coords" >>,
     Generator |-> << "CapitalCosts", "FixedOMCosts", "VariableOMCosts",
                      "FuelCosts", "CCSCostTSVariable", "Efficiency",
                      "RefInitialCap", "ScaleFactorInitialCap", "InitialCapacity",
                      "MaxBuiltCapacity", "MaxInstalledCapacity", "RampRate",
                      "GeneratorTypeAvailability", "CO2Content", "Lifetime" >>,
     Node |-> << "ElectricAnnualDemand", "NodeLostLoadCost",
                 "HydroGenMaxAnnualProduction" >>,
     Transmission |-> << "lineEfficiency", "MaxBuiltCapacity", "Length",
                         "TypeCapitalCost", "TypeFixedOMCost", "InitialCapacity",
                         "MaxInstallCapacityRaw", "Lifetime" >>,
     Storage |-> << "InitialPowerCapacity", "PowerCapitalCost", "PowerFixedOMCost",
                    "PowerMaxBuiltCapacity", "EnergyCapitalCost",
                    "EnergyFixedOMCost", "EnergyInitialCapacity",
                    "EnergyMaxBuiltCapacity", "EnergyMaxInstalledCapacity",
                    "PowerMaxInstalledCapacity", "StorageInitialEnergyLevel",
                    "StorageChargeEff", "StorageDischargeEff",
                    "StoragePowToEnergy", "StorageBleedEfficiency", "Lifetime" >>]

\* a loop over the sheets that skips the first one of each file
SheetNamesFromSecond(xls_file) ==
    {sheets[xls_file][i] : i \in 2..Len(sheets[xls_file])}

\* the sheet names the registry lists for xls_file
SheetNames(xls_file) == {sheets[xls_file][i] : i \in 1..Len(sheets[xls_file])}

\* pd.DataFrame(): no columns, no rows
EmptyDataFrame == Table(<< >>, << >>)

\* what pd.ExcelWriter(file, engine="openpyxl") leaves on close, lines 18-21:
\* the writer opens in its default mode "w", so the file is a new workbook
\* that holds one empty sheet per name written and nothing of what a file
\* of that name held before
Workbook(xls_file) == [sheet \in SheetNames(xls_file) |-> EmptyDataFrame]

\* the loop over the registry, lines 15-21; mkdir(exist_ok, parents) makes the
\* directory; files of the directory that the registry does not name stay
ScaffoldLoop(d) ==
    [exists |-> TRUE,
     files |-> [xls_file \in DOMAIN sheets |-> Workbook(xls_file)] @@ d.files]

\* create_empty_empire_dataset(dataset_path), spec.md 4.2 scaffold: every
\* registry entry has a table afterwards, empty where none was there
create_empty_empire_dataset(d) ==
    [exists |-> TRUE,
     files |-> [xls_file \in DOMAIN sheets |->
                   IF xls_file \in DOMAIN d.files
                   THEN d.files[xls_file] @@ Workbook(xls_file)
                   ELSE Workbook(xls_file)] @@ d.files]

\* set_X(df) on the files, spec.md 4.2 writeTable: the sheet is created if
\* absent and the other sheets of the file are preserved
WriteTable(d, group, sheet, df) ==
    [d EXCEPT !.files =
        (group :> ((sheet :> df) @@
                   (IF group \in DOMAIN d.files THEN d.files[group] ELSE << >>)))
        @@ d.files]

\* tables a user fills in between two scaffolds
PopulateArgs ==
    LET data == Dataset(<<"NO1", "Great Brit.">>, <<"HVDC_Cable">>)
    IN  { [group |-> "Generator", sheet |-> "CapitalCosts",
           df |-> data["Generator/CapitalCosts"]],
          [group |-> "Generator", sheet |-> "FixedOMCosts",
           df |-> data["Generator/FixedOMCosts"]],
          [group |-> "Node", sheet |-> "ElectricAnnualDemand",
           df |-> data["Node/ElectricAnnualDemand"]],
          [group |-> "Transmission", sheet |-> "Length",
           df |-> data["Transmission/Length"]],
          [group |-> "Sets", sheet |-> "Nodes",
           df |-> Table(<<"Nodes">>, << [Nodes |-> "NO1"] >>)],
          [group |-> "General", sheet |-> "CO2Price",
           df |-> data["General/CO2Price"]] }

InitScaffold ==
    /\ dir \in {NoDirectory, [exists |-> TRUE, files |-> << >>]}
    /\ ds = << >>
    /\ load = << >>
    /\ before = [dir |-> dir, last |-> [op |-> "none"]]
    /\ last = [op |-> "none"]
    /\ steps = 0
    /\ run = NoRun
    /\ procs = NoProcs

BeginDir ==
    /\ steps < MaxDirSteps
    /\ steps' = steps + 1
    /\ before' = [dir |-> dir, last |-> last]
    /\ UNCHANGED <<ds, load, run, procs>>

\* create_1_node_system.py 15-21
Scaffold ==
    /\ BeginDir
    /\ dir' = ScaffoldLoop(dir)
    /\ last' = [op |-> "scaffold"]

\* dataset_to_yaml.py 19-21
GuardedScaffold ==
    /\ BeginDir
    /\ dir' = IF ~dir.exists THEN create_empty_empire_dataset(dir) ELSE dir
    /\ last' = [op |-> "create_empty_empire_dataset"]

\* a setter call on a dataset directory that exists
Populate ==
    \E a \in PopulateArgs :
        /\ dir.exists
        /\ BeginDir
        /\ dir' = WriteTable(dir, a.group, a.sheet, a.df)
        /\ last' = [op |-> "set", group |-> a.group, sheet |-> a.sheet]

NextScaffold == Scaffold \/ GuardedScaffold \/ Populate

SpecScaffold == InitScaffold /\ [][NextScaffold]_vars

\* the last operation was one of the two scaffolds
Scaffolded == last.op \in {"scaffold", "create_empty_empire_dataset"}

\* the sheet of the group's file holds rows in directory d
Populated(d, group, sheet) ==
    /\ group \in DOMAIN d.files
    /\ sheet \in DOMAIN d.files[group]
    /\ d.files[group][sheet].rows # << >>

\* C11: the scaffold is idempotent and non-destructive: the second of two
\* runs of the same scaffold in a row leaves the directory as the first run
\* left it, and a scaffold of a directory in which a table holds rows leaves
\* that table as it was, never empty.
C11_ScaffoldIdempotentNonDestructive ==
    Scaffolded =>
        /\ before.last.op = last.op => dir = before.dir
        /\ \A group \in DOMAIN before.dir.files :
             \A sheet \in DOMAIN before.dir.files[group] :
                Populated(before.dir, group, sheet) =>
                    /\ Populated(dir, group, sheet)
                    /\ dir.files[group][sheet] = before.dir.files[group][sheet]

\* the sheet of the group's file exists in directory d
HasPartition(d, group, sheet) ==
    group \in DOMAIN d.files /\ sheet \in DOMAIN d.files[group]

\* (group, sheet) is an entry of the registry
InRegistry(group, sheet) ==
    group \in DOMAIN sheets /\ \E i \in 1..Len(sheets[group]) : sheets[group][i] = sheet

\* C12: after the scaffold loop, the directory exists and holds, for every
\* (group, table_name) of the registry, a file of the group with a sheet
\* table_name that has no rows and no columns; every sheet that the loop
\* created is an entry of the registry.
C12_ScaffoldCreatesRegistryEmpty ==
    last.op = "scaffold" =>
        /\ dir.exists
        /\ \A group \in DOMAIN sheets :
             \A i \in 1..Len(sheets[group]) :
                /\ HasPartition(dir, group, sheets[group][i])
                /\ dir.files[group][sheets[group][i]].rows = << >>
                /\ dir.files[group][sheets[group][i]].cols = << >>
        /\ \A group \in DOMAIN dir.files :
             \A sheet \in DOMAIN dir.files[group] :
                ~HasPartition(before.dir, group, sheet) => InRegistry(group, sheet)

\* C12 witness: the loop ran on a directory that did not exist and left,
\* among others, the empty sheets Nodes of Sets.xlsx and Lifetime of
\* Storage.xlsx, and no file General.xlsx.
C12_Witness ==
    /\ last.op = "scaffold"
    /\ ~before.dir.exists
    /\ HasPartition(dir, "Sets", "Nodes")
    /\ dir.files["Sets"]["Nodes"] = EmptyDataFrame
    /\ HasPartition(dir, "Storage", "Lifetime")
    /\ "General" \notin DOMAIN dir.files

\* the accessors of the general group that the dataset-construction script
\* calls (create_1_node_system.py 64-66), with the table each one is bound to
GeneralAccessorTable ==
    [co2_cap      |-> "General/CO2Cap",
     co2_price    |-> "General/CO2Price",
     season_scale |-> "General/SeasonScale"]

\* the table id of the sheet of the group's file
TableId(group, sheet) == group \o "/" \o sheet

\* the tables that the managers and the script read or write
UsedTableIds ==
    TableIds \cup {GeneralAccessorTable[a] : a \in DOMAIN GeneralAccessorTable}

\* C13: every (group, table) that an accessor is used on, those of the
\* General group included, is an entry of the registry: a directory that the
\* scaffold loop has just created holds a sheet for each of them.
C13_AccessorTablesInRegistry ==
    (last.op = "scaffold" /\ ~before.dir.exists) =>
        \A id \in UsedTableIds :
            \E group \in DOMAIN dir.files :
                \E sheet \in DOMAIN dir.files[group] : TableId(group, sheet) = id

----------------------------------------------------------------------------
(* Claims on the generator cost managers *)

GenFixedOMId == "Generator/FixedOMCosts"

\* C14: FixedOMCost.apply() returns normally; on a table that has
\* 'generatorFixedOMCost in euro per kW' it sets that column on the rows of
\* the target technology, on a table that lacks it and has
\* 'generatorCapitalCost in euro per kW' it sets that column on those rows;
\* the other rows, the columns of the table, the generator capital-cost
\* table and every other table are as before.
C14_FixedOMColumnFallback ==
    LET old == before.ds[GenFixedOMId]
        new == ds[GenFixedOMId]
        y == IF HasCol(old, ColFixedOM) THEN ColFixedOM ELSE ColCapital
    IN  (last.mgr.kind = "FixedOMCostManager" /\ HasCol(old, y)) =>
            /\ last.outcome = "ok"
            /\ new.cols = old.cols
            /\ Len(new.rows) = Len(old.rows)
            /\ \A i \in RowIdx(old) :
                 new.rows[i] =
                    IF old.rows[i]["GeneratorTechnology"] = last.mgr.generator_technology
                    THEN [old.rows[i] EXCEPT ![y] = last.mgr.fixed_om_cost]
                    ELSE old.rows[i]
            /\ OtherTablesUnchanged(GenFixedOMId)
            /\ load = before.load

\* C14 witness: on a table of the older vintage the Nuclear rows got 20 under
\* the capital-cost name, the Wind_onshr row kept its 12, and the generator
\* capital-cost table kept its 6000 for Nuclear.
C14_Witness ==
    /\ last.mgr.kind = "FixedOMCostManager"
    /\ last.outcome = "ok"
    /\ last.mgr.generator_technology = "Nuclear"
    /\ ~HasCol(before.ds[GenFixedOMId], ColFixedOM)
    /\ before.ds[GenFixedOMId].rows[1][ColCapital] = 15
    /\ ds[GenFixedOMId].rows[1][ColCapital] = 20
    /\ ds[GenFixedOMId].rows[3][ColCapital] = 20
    /\ ds[GenFixedOMId].rows[2][ColCapital] = 12
    /\ ds["Generator/CapitalCosts"].rows[1][ColCapital] = 6000

\* C15: whenever FixedOMCost.apply() writes the generator fixed-O&M table,
\* the table written has the column 'generatorFixedOMCost in euro per kW',
\* also when the table read had the capital-cost name in its place.
C15_FixedOMWrittenCanonical ==
    (last.mgr.kind = "FixedOMCostManager" /\ last.writes # << >>) =>
        HasCol(ds[GenFixedOMId], ColFixedOM)

\* C16: FuelCost.apply() for a technology that has rows in the fuel-cost
\* table returns normally and leaves the table with
\* 'generatorTypeFuelCost in euro per GJ' equal to the new cost on the rows
\* of that technology, every other row as before.
C16_FuelCostPersisted ==
    LET id == "Generator/FuelCosts"
        old == before.ds[id]
        new == ds[id]
    IN  (/\ last.mgr.kind = "FuelCostManager"
         /\ \E i \in RowIdx(old) :
               old.rows[i]["GeneratorTechnology"] = last.mgr.generator_technology)
        => /\ last.outcome = "ok"
           /\ last.writes = <<id>>
           /\ new.cols = old.cols
           /\ Len(new.rows) = Len(old.rows)
           /\ \A i \in RowIdx(old) :
                new.rows[i] =
                   IF old.rows[i]["GeneratorTechnology"] = last.mgr.generator_technology
                   THEN [old.rows[i] EXCEPT ![ColFuel] = last.mgr.fuel_cost]
                   ELSE old.rows[i]

----------------------------------------------------------------------------
(* Run orchestration: run_empire_model(empire_config, run_config,          *)
(* data_managers, test_run), called at run_analysis.py 185-187 with the    *)
(* list of constructed managers.  It applies each manager of the list in   *)
(* order on the dataset behind the one client they share and then starts   *)
(* the optimizer; an apply() that raises ends the run (spec.md 4.5, 5).    *)
(* run.applied is the list of managers whose apply() was called,           *)
(* run.returned the number of calls that returned, run.failed the position *)
(* of the call that raised (0: none), run.optimizer whether the optimizer  *)
(* was started, run.ds0 the dataset as it was handed over.                 *)

\* longest list of managers handed to the orchestration
MaxManagers == 3

\* manager.apply(), by the class of the manager
Apply(m, d) ==
    CASE m.kind = "AvailabilityManager" -> AvailabilityApply(m, d)
      [] m.kind = "CapitalCostManager" -> CapitalCostApply(m, d)
      [] m.kind = "FuelCostManager" -> FuelCostApply(m, d)
      [] m.kind = "CO2PricetManager" -> CO2PriceApply(m, d)
      [] m.kind = "FixedOMCostManager" -> FixedOMCostApply(m, d)
      [] m.kind = "MaxInstalledCapacityManager" -> MaxInstalledCapacityApply(m, d)
      [] m.kind = "MaxBuiltCapacityManager" -> MaxBuiltCapacityApply(m, d)
      [] m.kind = "MaxTransmissionCapacityManager" -> MaxTransmissionCapacityApply(m, d)
      [] m.kind = "ElectricLoadManager" -> ElectricLoadApply(m, d, "none")
      [] m.kind = "RampRateManager" -> RampRateApply(m, d)
      [] m.kind = "InitialTransmissionCapacityManager" ->
            InitialTransmissionCapacityApply(m, d)
      [] m.kind = "TransmissionLengthManager" -> TransmissionLengthApply(m, d)
      [] m.kind = "TransmissionCapexManager" -> TransmissionCapexApply(m, d)
      [] m.kind = "TransmissionFixedOMManager" -> TransmissionFixedOMApply(m, d)

\* constructed managers a caller puts in its list: three whose apply()
\* returns on the dataset of the model and two whose apply() raises (no
\* 'Bio' row; the AttributeError of FuelCostManager)
ManagerPool ==
    { [kind |-> "AvailabilityManager", generator_technology |-> "Nuclear",
       availability |-> 5],
      [kind |-> "CapitalCostManager", generator_technology |-> "Nuclear",
       capital_cost |-> 7000],
      [kind |-> "MaxTransmissionCapacityManager", from_node |-> "NO1",
       to_node |-> "NO2", max_installed_capacity |-> 0],
      [kind |-> "AvailabilityManager", generator_technology |-> "Bio",
       availability |-> 5],
      [kind |-> "FuelCostManager", generator_technology |-> "Nuclear",
       fuel_cost |-> 3] }

ManagerLists ==
    UNION { [1..n -> ManagerPool] : n \in 0..MaxManagers }

\* an orchestration that catches the exception of a manager and goes on
AfterApplyCatch(r, m, res) ==
    [r EXCEPT !.applied = Append(@, m), !.returned = @ + 1]

\* the run after the call of m.apply() ended as res: the exception of a
\* manager is not caught, it ends the run
AfterApply(r, m, res) ==
    IF res.outcome = "ok"
    THEN [r EXCEPT !.applied = Append(@, m), !.returned = @ + 1]
    ELSE [r EXCEPT !.applied = Append(@, m), !.failed = Len(r.applied) + 1,
                   !.pc = "failed"]

InitOrchestration ==
    /\ ds = Dataset(<<"NO1", "Great Brit.">>, <<"HVAC_OverheadLine", "HVDC_Cable">>)
    /\ load = LoadFileOf(<<"NO1", "GB", "time", "year", "month", "hour">>)
    /\ before = [ds |-> ds, load |-> load]
    /\ last = NoOperation
    /\ steps = 0
    /\ dir = NoDirectory
    /\ \E ms \in ManagerLists :
          run = [pc |-> "apply", managers |-> ms, applied |-> << >>,
                 returned |-> 0, failed |-> 0, optimizer |-> FALSE, ds0 |-> ds]
    /\ procs = NoProcs

\* for manager in data_managers: manager.apply()
ApplyNext ==
    /\ run.pc = "apply"
    /\ Len(run.applied) < Len(run.managers)
    /\ LET m == run.managers[Len(run.applied) + 1]
           res == Apply(m, Current)
       IN  /\ Applied(m, res)
           /\ run' = AfterApply(run, m, res)
    /\ before' = Current
    /\ UNCHANGED <<steps, dir, procs>>

\* the optimizer is started on the dataset once the loop is through
InvokeOptimizer ==
    /\ run.pc = "apply"
    /\ Len(run.applied) = Len(run.managers)
    /\ run' = [run EXCEPT !.pc = "done", !.optimizer = TRUE]
    /\ UNCHANGED <<ds, load, before, last, steps, dir, procs>>

NextOrchestration == ApplyNext \/ InvokeOptimizer

SpecOrchestration == InitOrchestration /\ [][NextOrchestration]_vars

\* the dataset after the managers of ms were applied one after the other,
\* starting from d
RECURSIVE AppliedInOrder(_, _)
AppliedInOrder(ms, d) ==
    IF ms = << >> THEN d
    ELSE LET res == Apply(Head(ms), d)
         IN  AppliedInOrder(Tail(ms), [ds |-> res.ds, load |-> res.load])

\* C17: the orchestration applies the managers in list order on one shared
\* dataset and starts the optimizer only after the last apply() returned;
\* once the k-th apply() has raised, no manager after the k-th is applied,
\* the optimizer is not started, and the dataset holds what managers
\* 1..k-1 wrote, nothing rolled back.
C17_OrderedFailFastNoRollback ==
    /\ run.applied = SubSeq(run.managers, 1, Len(run.applied))
    /\ Current = AppliedInOrder(SubSeq(run.managers, 1, run.returned),
                                [ds |-> run.ds0, load |-> before.load])
    /\ run.optimizer =>
          /\ run.returned = Len(run.managers)
          /\ run.failed = 0
    /\ (ApplyCalled /\ last.outcome # "ok") =>
          /\ run.pc = "failed"
          /\ last.mgr = run.managers[run.failed]
    /\ run.failed # 0 =>
          /\ Len(run.applied) = run.failed
          /\ run.returned = run.failed - 1
          /\ ~run.optimizer

\* C17 witness: the second of three managers raised after the first had
\* set the Nuclear capital cost to 7000; the third was not applied, the
\* optimizer was not started and the 7000 is still in the table.
C17_Witness ==
    /\ run.pc = "failed"
    /\ Len(run.managers) = 3
    /\ run.failed = 2
    /\ Len(run.applied) = 2
    /\ ~run.optimizer
    /\ run.managers[1].kind = "CapitalCostManager"
    /\ run.ds0["Generator/CapitalCosts"].rows[1][ColCapital] = 6000
    /\ ds["Generator/CapitalCosts"].rows[1][ColCapital] = 7000

----------------------------------------------------------------------------
(* The analysis-run script, run_analysis.py, from the check of the results *)
(* directory (78-79) to the construction of its managers (103-180).  The   *)
(* arguments are those the parser let through; restricted_float is not in  *)
(* the sources, so no range of -na is assumed.  run.pc is the position in  *)
(* the script, run.paths and run.client whether setup_run_paths and the    *)
(* client constructor have run, run.managers the list data_managers,       *)
(* run.error the exception that ended the script.                          *)

\* keyword parameters of each __init__ besides client: required, optional
Required ==
    [AvailabilityManager |-> {"generator_technology", "availability"},
     CapitalCostManager |-> {"generator_technology", "capital_cost"},
     FuelCostManager |-> {"generator_technology", "fuel_cost"},
     CO2PricetManager |-> {"periods", "co2_prices"},
     FixedOMCostManager |-> {"generator_technology", "fixed_om_cost"},
     MaxInstalledCapacityManager |->
        {"generator_technology", "nodes", "max_installed_capacity"},
     MaxBuiltCapacityManager |-> {"generator_technology", "max_built_capacity"},
     MaxTransmissionCapacityManager |->
        {"from_node", "to_node", "max_installed_capacity"},
     ElectricLoadManager |-> {"run_config", "node", "scale", "shift"},
     RampRateManager |-> {"thermal_generator", "ramp_rate"},
     InitialTransmissionCapacityManager |->
        {"from_node", "to_node", "initial_installed_capacity"},
     TransmissionLengthManager |-> {"from_node", "to_node", "length"},
     TransmissionCapexManager |-> {"transmission_type", "capex"},
     TransmissionFixedOMManager |-> {"transmission_type", "fixed_om"}]

Optional(kind) ==
    CASE kind = "MaxBuiltCapacityManager" -> {"nodes"}
      [] kind = "ElectricLoadManager" -> {"datetime_format"}
      [] OTHER -> {}

\* Python binds the keywords of the call to the parameters of __init__
Accepts(call) ==
    LET keywords == DOMAIN call \ {"kind"}
    IN  /\ Required[call.kind] \subseteq keywords
        /\ keywords \subseteq Required[call.kind] \cup Optional(call.kind)

\* the checks an __init__ makes on its arguments
Validates(call) ==
    CASE call.kind = "AvailabilityManager" -> AvailabilityValid(call)
      [] call.kind = "RampRateManager" -> RampRateValid(call)
      [] call.kind = "CO2PricetManager" -> CO2PriceValid(call)
      [] OTHER -> TRUE

\* how the constructor call ends
Construct(call) ==
    IF ~Accepts(call) THEN "TypeError"
    ELSE IF ~Validates(call) THEN "ValueError"
    ELSE "ok"

\* a constructor that runs the edit at once
DatasetAfterInitEager(call, d) ==
    IF Construct(call) = "ok"
    THEN LET res == Apply(call, d) IN [ds |-> res.ds, load |-> res.load]
    ELSE d

\* the dataset after Manager(client=client, ...): __init__ stores its
\* arguments and calls no accessor
DatasetAfterInit(call, d) == d

remove_transmission ==
    << <<"HollandseeKust", "DoggerBank">>, <<"Nordsoen", "DoggerBank">>,
       <<"SorligeNordsjoII", "DoggerBank">>, <<"Borssele", "EastAnglia">>,
       <<"SorligeNordsjoI", "FirthofForth">>, <<"Nordsoen", "HelgolanderBucht">>,
       <<"SorligeNordsjoI", "HelgolanderBucht">>,
       <<"SorligeNordsjoII", "HelgolanderBucht">>, <<"Borssele", "Hornsea">>,
       <<"HollandseeKust", "Hornsea">>, <<"UtsiraNord", "MorayFirth">>,
       <<"Borssele", "Norfolk">>, <<"HollandseeKust", "Norfolk">>,
       <<"HollandseeKust", "Belgium">>, <<"Hornsea", "DoggerBank">>,
       <<"Borssele", "Netherlands">>, <<"HelgolanderBucht", "Netherlands">>,
       <<"SorligeNordsjoI", "Nordsoen">>, <<"SorligeNordsjoII", "Nordsoen">>,
       <<"UtsiraNord", "Nordsoen">> >>

NorwegianNodes == <<"NO1", "NO2", "NO3", "NO4", "NO5">>

\* the constructor calls of the script in the order it makes them, lines
\* 103-180.  The ramp rate 0.85 lies between 8 and 9 tenths; 8 stands for it.
ConstructorCalls(args) ==
    << [kind |-> "AvailabilityManager", generator_technology |-> "Nuclear",
        availability |-> args.nuclear_availability],
       [kind |-> "CapitalCostManager", generator_technology |-> "Nuclear",
        capital_cost |-> args.nuclear_capital_cost],
       [kind |-> "MaxInstalledCapacityManager", nodes |-> NorwegianNodes,
        generator_technology |-> "Wind_onshr",
        max_installed_capacity |-> args.max_onshore_wind_norway] >>
    \o (IF args.protective
        THEN [i \in 1..Len(remove_transmission) |->
                [kind |-> "MaxTransmissionCapacityManager",
                 from_node |-> remove_transmission[i][1],
                 to_node |-> remove_transmission[i][2],
                 max_installed_capacity |-> 0]]
        ELSE << >>)
    \o << [kind |-> "MaxInstalledCapacityManager", nodes |-> NorwegianNodes,
           generator_technology |-> "Wind_offshr_grounded",
           max_installed_capacity |-> args.max_offshore_wind_grounded_norway],
          [kind |-> "RampRateManager", thermal_generator |-> "Nuclear",
           ramp_rate |-> 8],
          [kind |-> "MaxTransmissionCapacityManager", from_node |-> "NO2",
           to_node |-> "Germany", max_installed_capacity |-> 1400],
          [kind |-> "InitialTransmissionCapacityManager", from_node |-> "NO2",
           to_node |-> "Great Brit.", initial_installed_capacity |-> 1400],
          [kind |-> "MaxTransmissionCapacityManager", from_node |-> "NO5",
           to_node |-> "Great Brit.", initial_installed_capacity |-> 0],
          [kind |-> "TransmissionLengthManager", from_node |-> "NO2",
           to_node |-> "Netherlands", length |-> 580] >>

\* a script that sets up the run paths whatever the results directory holds
AfterCheckNoCheck(r) == [r EXCEPT !.pc = "setup_run_paths"]

\* lines 78-79: results_objective.csv in the run's Output directory
AfterCheck(r) ==
    IF r.objective_exists
    THEN [r EXCEPT !.pc = "error", !.error = "ValueError"]
    ELSE [r EXCEPT !.pc = "setup_run_paths"]

InitScript ==
    /\ ds = Dataset(<<"NO1", "Great Brit.">>, <<"HVAC_OverheadLine", "HVDC_Cable">>)
    /\ load = LoadFileOf(<<"NO1", "GB", "time", "year", "month", "hour">>)
    /\ before = [ds |-> ds, load |-> load]
    /\ last = NoOperation
    /\ steps = 0
    /\ dir = NoDirectory
    /\ \E na \in RatioArgs, p \in BOOLEAN, exists \in BOOLEAN :
          run = [pc |-> "check",
                 args |-> [nuclear_availability |-> na,
                           nuclear_capital_cost |-> 7000,
                           max_onshore_wind_norway |-> 50,
                           max_offshore_wind_grounded_norway |-> 50,
                           protective |-> p],
                 objective_exists |-> exists,
                 paths |-> FALSE, client |-> FALSE,
                 managers |-> << >>, error |-> "none"]
    /\ procs = NoProcs

\* lines 78-79
CheckResults ==
    /\ run.pc = "check"
    /\ run' = AfterCheck(run)
    /\ UNCHANGED <<ds, load, before, last, steps, dir, procs>>

\* line 81
SetupRunPaths ==
    /\ run.pc = "setup_run_paths"
    /\ run' = [run EXCEPT !.pc = "client", !.paths = TRUE]
    /\ UNCHANGED <<ds, load, before, last, steps, dir, procs>>

\* line 101
OpenClient ==
    /\ run.pc = "client"
    /\ run' = [run EXCEPT !.pc = "construct", !.client = TRUE]
    /\ UNCHANGED <<ds, load, before, last, steps, dir, procs>>

\* lines 103-180, one constructor call at a time; an exception of a
\* constructor ends the script
ConstructNext ==
    /\ run.pc = "construct"
    /\ Len(run.managers) < Len(ConstructorCalls(run.args))
    /\ LET call == ConstructorCalls(run.args)[Len(run.managers) + 1]
           d == DatasetAfterInit(call, Current)
       IN  /\ ds' = d.ds
           /\ load' = d.load
           /\ run' = IF Construct(call) = "ok"
                     THEN [run EXCEPT !.managers = Append(@, call)]
                     ELSE [run EXCEPT !.pc = "error", !.error = Construct(call)]
    /\ UNCHANGED <<before, last, steps, dir, procs>>

NextScript == CheckResults \/ SetupRunPaths \/ OpenClient \/ ConstructNext

SpecScript == InitScript /\ [][NextScript]_vars

\* C18: in an analysis run no apply() is called before every manager is
\* constructed, and a constructor, whether it returns or raises, neither
\* reads nor writes the dataset: while the managers are constructed, and
\* after a constructor has raised, every table and the load series are as
\* they were when the run began.
C18_ConstructionLeavesDatasetUntouched ==
    /\ ApplyCalled => Len(run.managers) = Len(ConstructorCalls(run.args))
    /\ Len(run.managers) < Len(ConstructorCalls(run.args)) =>
          /\ last = NoOperation
          /\ Current = before
    /\ (run.pc = "error" /\ run.client) => Current = before

\* C18 witness: the constructor of the Northconnect manager raised after the
\* managers before it were constructed; no apply() was called and the
\* Nuclear availability in the dataset is the 9 it was.
C18_Witness ==
    /\ run.pc = "error"
    /\ run.client
    /\ Len(run.managers) >= 7
    /\ last = NoOperation
    /\ ds["Generator/GeneratorTypeAvailability"].rows[1][ColAvail] = 9

\* C20: when results_objective.csv exists in the run's results directory the
\* script ends with an error at its check, before setup_run_paths, before
\* the client on the dataset is opened and before any manager is constructed
\* or applied; the dataset is not modified.
C20_ExistingResultsFailFirst ==
    run.objective_exists =>
        /\ run.pc \in {"check", "error"}
        /\ run.pc = "error" => run.error = "ValueError"
        /\ ~run.paths
        /\ ~run.client
        /\ run.managers = << >>
        /\ last = NoOperation
        /\ Current = before

\* C20 witness: the objective file was there and the script has ended with
\* the ValueError, nothing set up, opened or constructed.
C20_Witness ==
    /\ run.objective_exists
    /\ run.pc = "error"
    /\ run.error = "ValueError"
    /\ ~run.paths /\ ~run.client
    /\ run.managers = << >>

----------------------------------------------------------------------------
(* Two managers applied at the same time on one dataset, each by a process *)
(* of its own.  apply() is a get of the whole table, an edit of the frame  *)
(* in memory and a set of the whole table (input_data_manager.py 222-237); *)
(* nothing locks the table in between, so the steps of the two processes   *)
(* interleave.  procs.mgr[p] is the manager of process p, procs.pc[p] its  *)
(* position, procs.read[p] the dataset as its get returned it, procs.log   *)
(* the order of the gets and sets.                                         *)

Processes == {1, 2}

MaxInstalledId == "Generator/MaxInstalledCapacity"

\* the managers of lines 105-110 and 150-156 of run_analysis.py, on the
\* technologies and nodes of the model's table; process p sets 50 + p
ConcurrentManagers(p) ==
    { [kind |-> "MaxInstalledCapacityManager", generator_technology |-> t,
       nodes |-> ns, max_installed_capacity |-> 50 + p] :
         t \in {"Wind_onshr", "Nuclear"},
         ns \in { <<"NO1">>, <<"NO2">>, NorwegianNodes } }

\* a set that edits the table as it is at the time of the write
WriteBackMerged(tables, m, d) ==
    LET res == Apply(m, [ds |-> tables, load |-> d.load])
    IN  [id \in DOMAIN tables |->
            IF InList(id, res.writes) THEN res.ds[id] ELSE tables[id]]

\* set_X(df) with the frame that was read as d and edited in memory: the
\* table is replaced by that frame, whole
WriteBack(tables, m, d) ==
    LET res == Apply(m, d)
    IN  [id \in DOMAIN tables |->
            IF InList(id, res.writes) THEN res.ds[id] ELSE tables[id]]

InitConcurrent ==
    /\ ds = Dataset(<<"NO1", "Great Brit.">>, <<"HVAC_OverheadLine", "HVDC_Cable">>)
    /\ load = LoadFileOf(<<"NO1", "GB", "time", "year", "month", "hour">>)
    /\ before = [ds |-> ds, load |-> load]
    /\ last = NoOperation
    /\ steps = 0
    /\ dir = NoDirectory
    /\ run = NoRun
    /\ \E m1 \in ConcurrentManagers(1), m2 \in ConcurrentManagers(2) :
          procs = [mgr |-> <<m1, m2>>, pc |-> <<"get", "get">>,
                   read |-> <<Current, Current>>, log |-> << >>]

\* lines 223-230: get_X(), the mask, and the ValueError of an empty selection
GetTable(p) ==
    /\ procs.pc[p] = "get"
    /\ procs' = [procs EXCEPT
                    !.read[p] = Current,
                    !.pc[p] = IF Apply(procs.mgr[p], Current).outcome = "ok"
                              THEN "set" ELSE "raised",
                    !.log = Append(@, <<p, "get">>)]
    /\ UNCHANGED <<ds, load, before, last, steps, dir, run>>

\* lines 232-237: the assignment on the frame and set_X(df)
SetTable(p) ==
    /\ procs.pc[p] = "set"
    /\ ds' = WriteBack(ds, procs.mgr[p], procs.read[p])
    /\ procs' = [procs EXCEPT !.pc[p] = "done", !.log = Append(@, <<p, "set">>)]
    /\ UNCHANGED <<load, before, last, steps, dir, run>>

NextConcurrent == \E p \in Processes : GetTable(p) \/ SetTable(p)

SpecConcurrent == InitConcurrent /\ [][NextConcurrent]_vars

\* both processes have written
BothDone == \A p \in Processes : procs.pc[p] = "done"

\* the table holds the edit of process p: the value of its manager on every
\* row that the manager selects
HoldsEdit(table, p) ==
    \A i \in RowIdx(table) :
        Selects(procs.mgr[p], table, table.rows[i]) =>
            table.rows[i][ColMaxInst] = procs.mgr[p].max_installed_capacity

\* no row is selected by both managers
DisjointRows ==
    LET table == before.ds[MaxInstalledId]
    IN  \A i \in RowIdx(table) :
           ~(/\ Selects(procs.mgr[1], table, table.rows[i])
             /\ Selects(procs.mgr[2], table, table.rows[i]))

\* one process did its get and its set before the other did its get
Sequential ==
    \/ procs.log = << <<1, "get">>, <<1, "set">>, <<2, "get">>, <<2, "set">> >>
    \/ procs.log = << <<2, "get">>, <<2, "set">>, <<1, "get">>, <<1, "set">> >>

\* the process whose set came last
LastWriter == procs.log[Len(procs.log)][1]

\* C19: two managers on the same table, applied at the same time without a
\* lock: once both have written, the table is the frame of the process that
\* wrote last (last write wins), so when both did their get before either
\* set, the table is what the last writer alone makes of the initial table
\* and the other edit is not in it; when one ran after the other and the
\* two select disjoint rows, the table holds both edits.
C19_LastWriteWins ==
    BothDone =>
        LET table == ds[MaxInstalledId]
            w == LastWriter
        IN  /\ table = Apply(procs.mgr[w], procs.read[w]).ds[MaxInstalledId]
            /\ HoldsEdit(table, w)
            /\ ~Sequential =>
                  table = Apply(procs.mgr[w], before).ds[MaxInstalledId]
            /\ (Sequential /\ DisjointRows) =>
                  \A p \in Processes : HoldsEdit(table, p)

\* C19 witness: process 1 set 51 on the Wind_onshr row of NO1 and process
\* 2 set 52 on the Wind_onshr row of NO2, disjoint rows; both read before
\* either wrote, process 2 wrote last, and the row of NO1 holds its initial
\* 100: the edit of process 1 is lost.
C19_Witness ==
    /\ BothDone
    /\ DisjointRows
    /\ ~Sequential
    /\ LastWriter = 2
    /\ procs.mgr[1].nodes = <<"NO1">> /\ procs.mgr[1].generator_technology = "Wind_onshr"
    /\ procs.mgr[2].nodes = <<"NO2">> /\ procs.mgr[2].generator_technology = "Wind_onshr"
    /\ ds[MaxInstalledId].rows[1][ColMaxInst] = 100
    /\ ds[MaxInstalledId].rows[2][ColMaxInst] = 52
    /\ ~HoldsEdit(ds[MaxInstalledId], 1)

----------------------------------------------------------------------------
(* The period-to-year mapping of the result pages: the dictionary          *)
(* periods_to_year_mapping of the input page (app/pages/input.py 22-24)    *)
(* and the year-range labels of undiscount_prices (app/modules/compare.py  *)
(* 13-16), both built from the run configuration.  run.config holds        *)
(* leap_years_investment and n_periods, run.periods_to_year_mapping and    *)
(* run.years_to_period_mapping the two dictionaries once built.            *)

\* largest leap_years_investment and n_periods of a configuration
MaxLeapYears == 5
MaxPeriods == 8

\* the literal 2020 of both comprehensions
BaseYear == 2020

\* range(empire_config.n_periods)
Range(n) == 0..(n - 1)

\* a mapping that counts the leaps from the period number
periods_to_year_mapping_from_number(empire_config) ==
    [p \in {i + 1 : i \in Range(empire_config.n_periods)} |->
        BaseYear + p * empire_config.leap_years_investment]

\* {i + 1: 2020 + i * leap_years_investment for i in range(n_periods)}
periods_to_year_mapping(empire_config) ==
    [p \in {i + 1 : i \in Range(empire_config.n_periods)} |->
        LET i == p - 1 IN BaseYear + i * empire_config.leap_years_investment]

\* f"{2020 + i*leap}-{2020 + leap + i*leap}"
YearRange(i, empire_config) ==
    ToString(BaseYear + i * empire_config.leap_years_investment) \o "-" \o
    ToString(BaseYear + empire_config.leap_years_investment
             + i * empire_config.leap_years_investment)

\* {label(i): i for i in range(n_periods)}; of two equal labels the later
\* i stays in the dictionary
years_to_period_mapping(empire_config) ==
    LET labels == {YearRange(i, empire_config) : i \in Range(empire_config.n_periods)}
    IN  [l \in labels |->
            CHOOSE i \in Range(empire_config.n_periods) :
                /\ YearRange(i, empire_config) = l
                /\ \A j \in Range(empire_config.n_periods) :
                      YearRange(j, empire_config) = l => j <= i]

InitPeriods ==
    /\ ds = << >>
    /\ load = << >>
    /\ before = << >>
    /\ last = NoOperation
    /\ steps = 0
    /\ dir = NoDirectory
    /\ \E leap \in 0..MaxLeapYears, n \in 0..MaxPeriods :
          run = [config |-> [leap_years_investment |-> leap, n_periods |-> n],
                 input_page |-> FALSE, periods_to_year_mapping |-> << >>,
                 compare_page |-> FALSE, years_to_period_mapping |-> << >>]
    /\ procs = NoProcs

\* input.py 22-24
BuildPeriodsToYear ==
    /\ ~run.input_page
    /\ run' = [run EXCEPT !.input_page = TRUE,
                          !.periods_to_year_mapping = periods_to_year_mapping(run.config)]
    /\ UNCHANGED <<ds, load, before, last, steps, dir, procs>>

\* compare.py 13-16
BuildYearsToPeriod ==
    /\ ~run.compare_page
    /\ run' = [run EXCEPT !.compare_page = TRUE,
                          !.years_to_period_mapping = years_to_period_mapping(run.config)]
    /\ UNCHANGED <<ds, load, before, last, steps, dir, procs>>

NextPeriods == BuildPeriodsToYear \/ BuildYearsToPeriod

SpecPeriods == InitPeriods /\ [][NextPeriods]_vars

\* C21: the mapping of the input page assigns to the period of index i
\* (i = 0 .. n_periods - 1, keyed by the period number i + 1) the year
\* 2020 + i * leap_years_investment; the year-range label that
\* undiscount_prices builds for index i starts in that same year and ends
\* one leap later; for leap_years_investment >= 1 the mapping is strictly
\* increasing over the n_periods periods and every index keeps its label.
C21_PeriodYearMapping ==
    LET cfg == run.config
        years == run.periods_to_year_mapping
        labels == run.years_to_period_mapping
    IN  /\ run.input_page =>
              /\ DOMAIN years = 1..cfg.n_periods
              /\ \A i \in Range(cfg.n_periods) :
                    years[i + 1] = BaseYear + i * cfg.leap_years_investment
              /\ cfg.leap_years_investment >= 1 =>
                    \A p, q \in DOMAIN years : p < q => years[p] < years[q]
        /\ (run.input_page /\ run.compare_page) =>
              \A i \in Range(cfg.n_periods) :
                 LET l == ToString(years[i + 1]) \o "-" \o
                          ToString(years[i + 1] + cfg.leap_years_investment)
                 IN  /\ l \in DOMAIN labels
                     /\ cfg.leap_years_investment >= 1 => labels[l] = i

\* C21 witness: five-year periods, three of them: the periods 1, 2, 3 map
\* to 2020, 2025, 2030 and the labels "2020-2025", "2025-2030", "2030-2035"
\* map to the indices 0, 1, 2.
C21_Witness ==
    /\ run.input_page /\ run.compare_page
    /\ run.config = [leap_years_investment |-> 5, n_periods |-> 3]
    /\ run.periods_to_year_mapping = <<2020, 2025, 2030>>
    /\ run.years_to_period_mapping["2020-2025"] = 0
    /\ run.years_to_period_mapping["2030-2035"] = 2

----------------------------------------------------------------------------
(* Claims on the selections of single managers *)

LengthId == "Transmission/Length"

\* C22: TransmissionLength compares names with the whitespace removed on
\* both sides: every row whose FromNode and ToNode, spaces removed, equal
\* the targets, spaces removed, has 'Length in km' equal to the new length
\* after apply(), and every other row is as before.
C22_LengthMatchesStrippedNames ==
    (last.mgr.kind = "TransmissionLengthManager" /\ ApplyCalled) =>
        LET old == before.ds[LengthId]
            new == ds[LengthId]
        IN  /\ Len(new.rows) = Len(old.rows)
            /\ \A i \in RowIdx(old) :
                 IF /\ StripSpaces(old.rows[i]["FromNode"]) = last.mgr.from_node
                    /\ StripSpaces(old.rows[i]["ToNode"]) = last.mgr.to_node
                 THEN new.rows[i] = [old.rows[i] EXCEPT ![ColLength] = last.mgr.length]
                 ELSE new.rows[i] = old.rows[i]

MaxBuiltId == "Generator/MaxBuiltCapacity"

\* C23: MaxBuiltCapacity.apply(): with nodes omitted (None) every row of the
\* target technology gets the new capacity; with a node list given, the
\* empty list included, only the rows of the target technology whose Node is
\* in the list are changed; every other row is as before.
C23_MaxBuiltNodeList ==
    (last.mgr.kind = "MaxBuiltCapacityManager" /\ last.outcome = "ok") =>
        LET old == before.ds[MaxBuiltId]
            new == ds[MaxBuiltId]
            m == last.mgr
        IN  /\ Len(new.rows) = Len(old.rows)
            /\ \A i \in RowIdx(old) :
                 IF /\ old.rows[i]["GeneratorTechnology"] = m.generator_technology
                    /\ m.nodes.none \/ InList(old.rows[i]["Node"], m.nodes.list)
                 THEN new.rows[i] = [old.rows[i] EXCEPT ![ColMaxBuilt] = m.max_built_capacity]
                 ELSE new.rows[i] = old.rows[i]

----------------------------------------------------------------------------
(* Claims on the analysis run, continued *)

\* the arguments are valid and the results directory holds no objective file
ValidRun ==
    /\ ~run.objective_exists
    /\ run.args.nuclear_availability >= 0
    /\ run.args.nuclear_availability <= One

\* C24: an analysis run with valid arguments and no existing results
\* constructs every manager of its sequence: each constructor is called
\* with parameters it accepts and returns, so the script never ends with an
\* exception on its way to the optimizer with the full list.
C24_RunConstructsEveryManager ==
    ValidRun => run.pc # "error"

----------------------------------------------------------------------------
(* Claims on the selections of single managers, continued *)

\* C25: MaxInstalledCapacity.apply() with technology T and node list L
\* raises exactly when no row has Node in L and GeneratorTechnology T, and
\* then writes nothing; otherwise it returns, the rows (n, T) with n in L
\* have the new capacity, every other row is as before, and a node of L
\* without a row for T causes no error.
C25_MaxInstalledPartialMatch ==
    (last.mgr.kind = "MaxInstalledCapacityManager" /\ ApplyCalled) =>
        LET old == before.ds[MaxInstalledId]
            new == ds[MaxInstalledId]
            m == last.mgr
            hit(i) == /\ InList(old.rows[i]["Node"], m.nodes)
                      /\ old.rows[i]["GeneratorTechnology"] = m.generator_technology
        IN  IF \E i \in RowIdx(old) : hit(i)
            THEN /\ last.outcome = "ok"
                 /\ new.cols = old.cols
                 /\ Len(new.rows) = Len(old.rows)
                 /\ \A i \in RowIdx(old) :
                      new.rows[i] =
                         IF hit(i)
                         THEN [old.rows[i] EXCEPT ![ColMaxInst] = m.max_installed_capacity]
                         ELSE old.rows[i]
            ELSE /\ last.outcome = "ValueError"
                 /\ Unchanged

\* C25 witness: nodes NO1 and NO5 for Wind_onshr, where only NO1 has a row:
\* apply() returned, the row of NO1 holds 50 and the row of NO2 its 200.
C25_Witness ==
    /\ last.mgr.kind = "MaxInstalledCapacityManager"
    /\ last.outcome = "ok"
    /\ last.mgr.nodes = <<"NO1", "NO5">>
    /\ last.mgr.generator_technology = "Wind_onshr"
    /\ before.ds[MaxInstalledId].rows[1][ColMaxInst] = 100
    /\ ds[MaxInstalledId].rows[1][ColMaxInst] = 50
    /\ ds[MaxInstalledId].rows[2][ColMaxInst] = 200

CO2PriceId == "General/CO2Price"

\* position of the last occurrence of x in the list xs
LastIndex(x, xs) ==
    CHOOSE k \in 1..Len(xs) : xs[k] = x /\ \A j \in (k + 1)..Len(xs) : xs[j] # x

\* C26: after CO2Price.apply() with periods p_1..p_n and prices c_1..c_n,
\* every row whose Period is in the list has 'CO2price in euro per tCO2'
\* equal to the price paired with the last occurrence of its period, and
\* every row whose Period is not in the list is as before.
C26_CO2PricePairs ==
    (last.mgr.kind = "CO2PricetManager" /\ ApplyCalled) =>
        LET old == before.ds[CO2PriceId]
            new == ds[CO2PriceId]
            m == last.mgr
        IN  /\ last.outcome = "ok"
            /\ new.cols = old.cols
            /\ Len(new.rows) = Len(old.rows)
            /\ \A i \in RowIdx(old) :
                 new.rows[i] =
                    IF InList(old.rows[i]["Period"], m.periods)
                    THEN [old.rows[i] EXCEPT
                            ![ColCO2] = m.co2_prices[LastIndex(old.rows[i]["Period"], m.periods)]]
                    ELSE old.rows[i]

\* C26 witness: periods [1, 1] with prices [50, 60]: the row of period 1
\* holds 60, the price of the last occurrence, and the row of period 2 its 70.
C26_Witness ==
    /\ last.mgr.kind = "CO2PricetManager"
    /\ last.outcome = "ok"
    /\ last.mgr.periods = <<1, 1>>
    /\ last.mgr.co2_prices = <<50, 60>>
    /\ before.ds[CO2PriceId].rows[1][ColCO2] = 63
    /\ ds[CO2PriceId].rows[1][ColCO2] = 60
    /\ ds[CO2PriceId].rows[2][ColCO2] = 70

----------------------------------------------------------------------------
(* Shape of the tables across apply() calls *)

\* the columns the managers assign; every other column of a table is a
\* dimension column
ValueColumns ==
    {ColAvail, ColCapital, ColFuel, ColFixedOM, ColCO2, ColMaxInst, ColMaxBuilt,
     ColMaxRaw, ColInitCap, ColLength, ColTypeCapex, ColTypeFixOM, ColRamp,
     ColDemand}

\* new has the columns, the number of rows and the dimension values of old
SameSchema(old, new) ==
    /\ new.cols = old.cols
    /\ Len(new.rows) = Len(old.rows)
    /\ \A i \in RowIdx(old) :
         /\ DOMAIN new.rows[i] = DOMAIN old.rows[i]
         /\ \A c \in DOMAIN old.rows[i] :
              c \notin ValueColumns => new.rows[i][c] = old.rows[i][c]

\* C27: after any apply() call, successful or failed, every table has the
\* column names, the number of rows and the dimension-column values it had
\* before: a manager only overwrites cells of an existing value column.
C27_SchemaPreserved ==
    ApplyCalled => \A id \in DOMAIN before.ds : SameSchema(before.ds[id], ds[id])

----------------------------------------------------------------------------
(* The same manager applied twice in a row *)

\* the managers that assign a constant to the cells they select
ValueAssigningKinds ==
    {"AvailabilityManager", "CapitalCostManager", "FixedOMCostManager",
     "CO2PricetManager", "MaxInstalledCapacityManager", "MaxBuiltCapacityManager",
     "MaxTransmissionCapacityManager", "InitialTransmissionCapacityManager",
     "TransmissionLengthManager", "TransmissionCapexManager", "RampRateManager"}

\* the dataset and the load file after one more apply() of the manager that
\* was just applied
AppliedAgain == Apply(last.mgr, Current)

\* the column of node n in the load file f
LoadColumn(f, n) ==
    LET cols == Rename(f.cols)
        j == CHOOSE k \in 1..Len(cols) : cols[k] = n
    IN  [h \in 1..Len(f.rows) |-> f.rows[h][j]]

\* C28: a value-assigning manager applied a second time in a row leaves the
\* dataset and the load file as its first application left them; a second
\* apply() of an ElectricLoad manager transforms the hourly series and the
\* first-period annual demand of its node once more, so with scale # 1 or
\* shift # 0 the result of two applications is not that of one.
C28_Idempotence ==
    /\ (ApplyCalled /\ last.mgr.kind \in ValueAssigningKinds) =>
          /\ AppliedAgain.ds = ds
          /\ AppliedAgain.load = load
          /\ (last.outcome = "ok") = (AppliedAgain.outcome = "ok")
    /\ (last.mgr.kind = "ElectricLoadManager" /\ last.outcome = "ok") =>
          LET m == last.mgr
              again == AppliedAgain
              x == ds[DemandId].rows[1][ColDemand]
          IN  /\ again.outcome = "ok"
              /\ LoadColumn(again.load, m.node) =
                    [h \in 1..Len(load.rows) |->
                        LoadTransform(LoadColumn(load, m.node)[h], m.scale, m.shift)]
              /\ again.ds[DemandId].rows[1][ColDemand] = NewAnnualDemand(x, m)
              /\ (m.scale # 1 \/ m.shift # 0) =>
                    /\ again.load # load
                    /\ again.ds[DemandId] # ds[DemandId]

\* C28 witness: a transmission-capacity manager changed its line and a
\* second application would change nothing.
C28_Witness ==
    /\ last.mgr.kind = "MaxTransmissionCapacityManager"
    /\ last.outcome = "ok"
    /\ ds # before.ds
    /\ AppliedAgain.ds = ds

----------------------------------------------------------------------------
(* Two managers applied in both orders.  Two sessions start from the same   *)
(* dataset: one applies a then b (on ds, load), the other b then a (on the *)
(* copy run.rev).                                                          *)

\* constructed managers to pair: two tables with managers of disjoint and of
\* overlapping rows, managers of other tables, and one whose apply() raises
PairPool ==
    { [kind |-> "AvailabilityManager", generator_technology |-> "Nuclear",
       availability |-> 5],
      [kind |-> "AvailabilityManager", generator_technology |-> "Bio",
       availability |-> 5],
      [kind |-> "MaxInstalledCapacityManager", generator_technology |-> "Wind_onshr",
       nodes |-> <<"NO1">>, max_installed_capacity |-> 50],
      [kind |-> "MaxInstalledCapacityManager", generator_technology |-> "Wind_onshr",
       nodes |-> <<"NO2">>, max_installed_capacity |-> 70],
      [kind |-> "MaxInstalledCapacityManager", generator_technology |-> "Wind_onshr",
       nodes |-> <<"NO1", "NO2">>, max_installed_capacity |-> 90],
      [kind |-> "MaxTransmissionCapacityManager", from_node |-> "NO2",
       to_node |-> "Germany", max_installed_capacity |-> 1400],
      [kind |-> "MaxTransmissionCapacityManager", from_node |-> "NO2",
       to_node |-> "Germany", max_installed_capacity |-> 0],
      [kind |-> "MaxTransmissionCapacityManager", from_node |-> "NO1",
       to_node |-> "NO2", max_installed_capacity |-> 0],
      [kind |-> "RampRateManager", thermal_generator |-> "Nuclear", ramp_rate |-> 8],
      [kind |-> "TransmissionCapexManager", transmission_type |-> "HVDC_Cable",
       capex |-> 800],
      [kind |-> "TransmissionFixedOMManager", transmission_type |-> "HVDC_Cable",
       fixed_om |-> 8] }

InitOrders ==
    /\ ds = Dataset(<<"NO1", "Great Brit.">>, <<"HVAC_OverheadLine", "HVDC_Cable">>)
    /\ load = LoadFileOf(<<"NO1", "GB", "time", "year", "month", "hour">>)
    /\ before = [ds |-> ds, load |-> load]
    /\ last = NoOperation
    /\ steps = 0
    /\ dir = NoDirectory
    /\ \E a \in PairPool, b \in PairPool :
          run = [pc |-> "orders", a |-> a, b |-> b, ds0 |-> ds,
                 n |-> 0, ok |-> TRUE,
                 rev |-> [ds |-> ds, load |-> load], rn |-> 0, rok |-> TRUE]
    /\ procs = NoProcs

\* a.apply(); b.apply()
ApplyInOrder ==
    /\ run.pc = "orders"
    /\ run.n < 2
    /\ LET m == IF run.n = 0 THEN run.a ELSE run.b
           res == Apply(m, Current)
       IN  /\ Applied(m, res)
           /\ run' = [run EXCEPT !.n = @ + 1, !.ok = @ /\ res.outcome = "ok"]
    /\ before' = Current
    /\ UNCHANGED <<steps, dir, procs>>

\* b.apply(); a.apply() on the other copy
ApplyInReverse ==
    /\ run.pc = "orders"
    /\ run.rn < 2
    /\ LET m == IF run.rn = 0 THEN run.b ELSE run.a
           res == Apply(m, run.rev)
       IN  run' = [run EXCEPT !.rn = @ + 1, !.rok = @ /\ res.outcome = "ok",
                              !.rev = [ds |-> res.ds, load |-> res.load]]
    /\ UNCHANGED <<ds, load, before, last, steps, dir, procs>>

NextOrders == ApplyInOrder \/ ApplyInReverse

SpecOrders == InitOrders /\ [][NextOrders]_vars

\* both orders are through and every apply() returned
BothOrdersApplied ==
    /\ run.pc = "orders"
    /\ run.n = 2 /\ run.rn = 2
    /\ run.ok /\ run.rok

\* row i of the starting dataset is selected by both managers of the pair
SelectedByBoth(i) ==
    /\ TargetId(run.a) = TargetId(run.b)
    /\ LET t == run.ds0[TargetId(run.a)]
       IN  Selects(run.a, t, t.rows[i]) /\ Selects(run.b, t, t.rows[i])

\* the managers of the pair target different tables or disjoint rows of one
DisjointTargets ==
    \/ TargetId(run.a) # TargetId(run.b)
    \/ \A i \in RowIdx(run.ds0[TargetId(run.a)]) : ~SelectedByBoth(i)

\* C29: two successful managers that target different tables, or disjoint
\* rows of one table, leave the same dataset in either order; where their
\* selections overlap, the overlapping rows end with the value of the
\* manager applied last.
C29_Commutativity ==
    BothOrdersApplied =>
        /\ DisjointTargets => (ds = run.rev.ds /\ load = run.rev.load)
        /\ ~DisjointTargets =>
              LET id == TargetId(run.a)
                  d0 == [ds |-> run.ds0, load |-> load]
              IN  \A i \in RowIdx(run.ds0[id]) :
                     SelectedByBoth(i) =>
                        /\ ds[id].rows[i] = Apply(run.b, d0).ds[id].rows[i]
                        /\ run.rev.ds[id].rows[i] = Apply(run.a, d0).ds[id].rows[i]

----------------------------------------------------------------------------
(* ElectricLoadManager on a load file of a whole year: 8760 hourly rows,   *)
(* the annual demand of each node equal to the sum of its hourly values.   *)

\* number of ElectricLoad operations on the year file in one behaviour
MaxYearSteps == 1

\* the shapes of the hourly profile of a node
Profiles == {"flat", "alternating", "halves", "thirds"}

\* the value of hour h of a profile whose mean is avg
ProfileValue(profile, avg, h) ==
    CASE profile = "flat" -> avg
      [] profile = "alternating" -> IF h % 2 = 1 THEN avg - 1 ELSE avg + 1
      [] profile = "halves" -> IF 2 * h <= HoursPerYear THEN avg + 1 ELSE avg - 1
      [] profile = "thirds" -> avg - 1 + (h % 3)

\* position of node n in the list of nodes
Position(n, nodes) == CHOOSE i \in 1..Len(nodes) : nodes[i] = n

\* electricload.csv of a year: the columns of NO1 and of Great Brit. (under
\* its code GB), then the four time columns; the node at position i of the
\* annual-demand table has mean load i, as its annual demand i * 8760
YearFile(demandNodes, profile) ==
    [cols |-> <<"NO1", "GB", "time", "year", "month", "hour">>,
     rows |-> [h \in 1..HoursPerYear |->
                 << ProfileValue(profile, Position("NO1", demandNodes), h),
                    ProfileValue(profile, Position("Great Brit.", demandNodes), h),
                    h, 2020, 1, h >>]]

InitYear ==
    /\ \E dn \in DemandLayouts, profile \in Profiles :
          /\ ds = Dataset(dn, <<"HVAC_OverheadLine", "HVDC_Cable">>)
          /\ load = YearFile(dn, profile)
    /\ before = [ds |-> ds, load |-> load]
    /\ last = NoOperation
    /\ steps = 0
    /\ dir = NoDirectory
    /\ run = NoRun
    /\ procs = NoProcs

\* ElectricLoadManager(...).apply() on the year file
ElectricLoadOnYear ==
    /\ steps < MaxYearSteps
    /\ \E n \in {"NO1", "Great Brit."}, sc \in {1, 2}, sh \in {-1, 0, 1} :
          LET m == [kind |-> "ElectricLoadManager", node |-> n, scale |-> sc,
                    shift |-> sh]
          IN  Applied(m, ElectricLoadApply(m, Current, "none"))
    /\ steps' = steps + 1
    /\ before' = Current
    /\ UNCHANGED <<dir, run, procs>>

NextYear == ElectricLoadOnYear

SpecYear == InitYear /\ [][NextYear]_vars

\* s[lo] + ... + s[hi], by halves
RECURSIVE SumRange(_, _, _)
SumRange(s, lo, hi) ==
    IF lo > hi THEN 0
    ELSE IF lo = hi THEN s[lo]
    ELSE LET mid == (lo + hi) \div 2
         IN  SumRange(s, lo, mid) + SumRange(s, mid + 1, hi)

\* the sum of the hourly values of node n in load file f
SeriesSum(f, n) == SumRange(LoadColumn(f, n), 1, Len(f.rows))

\* the first-period annual demand of node n in table t
FirstPeriodDemand(t, n) ==
    LET i == CHOOSE k \in RowIdx(t) :
                t.rows[k]["Nodes"] = n /\ t.rows[k]["Period"] = t.rows[1]["Period"]
    IN  t.rows[i][ColDemand]

\* in d the first-period annual demand of n is the sum of n's 8760 hourly
\* values
DemandIsSeriesSum(d, n) ==
    /\ Len(d.load.rows) = HoursPerYear
    /\ FirstPeriodDemand(d.ds[DemandId], n) = SeriesSum(d.load, n)

\* C30: when the first-period annual demand X of node N was the sum of N's
\* hourly values over 8760 hours before a successful ElectricLoad.apply(),
\* the new annual demand is scale*X + 8760*shift and is again the sum of
\* N's hourly values.
C30_DemandStaysSeriesSum ==
    (/\ last.mgr.kind = "ElectricLoadManager"
     /\ last.outcome = "ok"
     /\ DemandIsSeriesSum(before, last.mgr.node)) =>
        LET n == last.mgr.node
            x == FirstPeriodDemand(before.ds[DemandId], n)
        IN  /\ FirstPeriodDemand(ds[DemandId], n) =
                  last.mgr.scale * x + HoursPerYear * last.mgr.shift
            /\ DemandIsSeriesSum(Current, n)

\* C30 witness: scale 2 and shift 1 on a node whose demand 8760 was the sum
\* of its alternating hourly values: the demand is 26280, the sum of the new
\* values.
C30_Witness ==
    /\ last.mgr.kind = "ElectricLoadManager"
    /\ last.outcome = "ok"
    /\ last.mgr.scale = 2 /\ last.mgr.shift = 1
    /\ DemandIsSeriesSum(before, last.mgr.node)
    /\ before.load.rows[1][1] # before.load.rows[2][1]
    /\ FirstPeriodDemand(before.ds[DemandId], last.mgr.node) = HoursPerYear
    /\ FirstPeriodDemand(ds[DemandId], last.mgr.node) = 3 * HoursPerYear
    /\ SeriesSum(load, last.mgr.node) = 3 * HoursPerYear

====
